---- MODULE Spec2Model ----
(***************************************************************************)
(* Whist (3..6 seats): the rules engine of src/src/game.ts (WhistGame and  *)
(* its helpers) as a state machine.                                        *)
(*                                                                         *)
(* Conventions.  Indices (dealerIndex, handIndex, bidTurnIndex,            *)
(* playTurnIndex) are 0-based as in the source; the sequences that hold    *)
(* playerIds, schedule, hands and the trick are 1-based, so element i of   *)
(* the source is element i + 1 here.  A wire token (a JavaScript string)   *)
(* is a sequence of one-character strings.  null is Null for numbers and   *)
(* "none" for suits and streak types.                                      *)
(***************************************************************************)
EXTENDS Integers, Sequences, FiniteSets, TLC

VARIABLES
    playerIds,              \* WhistGame.playerIds
    dealerIndex,            \* WhistGame.dealerIndex
    schedule,               \* WhistGame.schedule
    handIndex,              \* WhistGame.handIndex
    totalScores,            \* WhistGame.totalScores  (pid -> number)
    streaks,                \* WhistGame.streaks      (pid -> {type, count})
    phase,                  \* WhistGame.phase
    trumpSuit,              \* WhistGame.trumpSuit
    hands,                  \* WhistGame.hands        (pid -> Card[])
    bids,                   \* WhistGame.bids         (pid -> number | null)
    tricksWon,              \* WhistGame.tricksWon    (pid -> number)
    currentTrick,           \* WhistGame.currentTrick
    leadSuit,               \* WhistGame.leadSuit
    pendingPlayTurnIndex,   \* WhistGame.pendingPlayTurnIndex
    bidTurnIndex,           \* WhistGame.bidTurnIndex
    playTurnIndex,          \* WhistGame.playTurnIndex
    rng,                    \* the stream of Math.random values the shuffles draw from
    last,                   \* the latest accepted call and what it returned
    steps,                  \* number of accepted calls so far (exploration cap)
    pure,                   \* latest application of a stateless helper
    played,                 \* history: the cards played so far in the current hand
    mode,                   \* how the session is driven and observed (fixed at the start)
    roomState               \* the Room that owns the session: roster, timers, pause

gameVars == <<playerIds, dealerIndex, schedule, handIndex, totalScores, streaks,
              phase, trumpSuit, hands, bids, tricksWon, currentTrick, leadSuit,
              pendingPlayTurnIndex, bidTurnIndex, playTurnIndex>>

vars == <<playerIds, dealerIndex, schedule, handIndex, totalScores, streaks,
          phase, trumpSuit, hands, bids, tricksWon, currentTrick, leadSuit,
          pendingPlayTurnIndex, bidTurnIndex, playTurnIndex, rng, last, steps, pure,
          played, mode, roomState>>

(***************************************************************************)
(* Bounds of the exploration.                                              *)
(***************************************************************************)
\* accepted calls explored in a session with the smallest table
MaxSteps == 32
\* accepted calls explored in a session with a bigger table
WideSteps == 13
\* number of Math.random streams explored
MaxSeeds == 2
\* the stateless helpers are applied to cards of this many top ranks
PureRanks == 3
\* seat counts 0..MaxSeatInput are given to the stateless helpers
MaxSeatInput == 8
\* length of the hand sequences given to the scoring step
MaxScoredHands == 6
\* bids and tricks 0..MaxTricksInput are given to the scoring step
MaxTricksInput == 2
\* hand sizes 1..MaxBidHand are given to the bid policy of the automated seats
MaxBidHand == 8
\* accepted calls explored after the fixed line of play of a late hand
LateSteps == 7
\* accepted calls explored after the fixed line of play up to the last hand
EndSteps == 8
\* accepted calls explored in a session whose thrown errors are recorded
TraceSteps == 8
\* seats that rejoin under a new identity in one session
MaxRemaps == 1
\* the largest table whose match is followed to a late hand
MatchSeats == 3

(***************************************************************************)
(* Program constants.                                                      *)
(***************************************************************************)
MinPlayers == 3
MaxPlayers == 6
Null == -1
StreakLimit == 5
StreakBonus == 10
ExactBonus == 5
ChooseTrumpHandSize == 8

SUITS == <<"S", "H", "D", "C">>
RANKS_ASC == <<2, 3, 4, 5, 6, 7, 8, 9, 10, 11, 12, 13, 14>>

SuitSet == {SUITS[i] : i \in 1..Len(SUITS)}
Range(s) == {s[i] : i \in 1..Len(s)}
Abs(x) == IF x < 0 THEN -x ELSE x
Min(a, b) == IF a < b THEN a ELSE b

(***************************************************************************)
(* cardToString / stringToCard                                             *)
(***************************************************************************)
DigitChars == <<"0", "1", "2", "3", "4", "5", "6", "7", "8", "9">>
IsDigit(ch) == \E d \in 0..9 : DigitChars[d + 1] = ch
DigitVal(ch) == CHOOSE d \in 0..9 : DigitChars[d + 1] = ch

\* String(r) of a non-negative integer: its decimal digits
RECURSIVE NatToChars(_)
NatToChars(r) ==
    IF r < 10 THEN <<DigitChars[r + 1]>>
    ELSE NatToChars(r \div 10) \o <<DigitChars[(r % 10) + 1]>>

NumToChars(r) == IF r < 0 THEN <<"-">> \o NatToChars(-r) ELSE NatToChars(r)

\* cardToString with the tokens of jack and queen exchanged
cardToStringSwapJQ(c) ==
    LET r == c.rank
        rs == IF r = 14 THEN <<"A">>
              ELSE IF r = 13 THEN <<"K">>
              ELSE IF r = 12 THEN <<"J">>
              ELSE IF r = 11 THEN <<"Q">>
              ELSE NumToChars(r)
    IN  rs \o <<c.suit>>

cardToString(c) ==
    LET r == c.rank
        rs == IF r = 14 THEN <<"A">>
              ELSE IF r = 13 THEN <<"K">>
              ELSE IF r = 12 THEN <<"Q">>
              ELSE IF r = 11 THEN <<"J">>
              ELSE NumToChars(r)
    IN  rs \o <<c.suit>>

\* value of a run of digits, read left to right
RECURSIVE DigitsVal(_, _)
DigitsVal(ds, acc) ==
    IF ds = <<>> THEN acc
    ELSE DigitsVal(Tail(ds), 10 * acc + DigitVal(Head(ds)))

\* the longest prefix of s made of digits
RECURSIVE DigitPrefix(_)
DigitPrefix(s) ==
    IF s = <<>> \/ ~IsDigit(Head(s)) THEN <<>>
    ELSE <<Head(s)>> \o DigitPrefix(Tail(s))

RECURSIVE SkipSpaces(_)
SkipSpaces(s) == IF s # <<>> /\ Head(s) = " " THEN SkipSpaces(Tail(s)) ELSE s

\* parseInt(r, 10): leading white space, an optional sign, then the longest
\* run of digits; NaN when there is no digit
ParseInt(r) ==
    LET t == SkipSpaces(r)
        neg == t # <<>> /\ Head(t) = "-"
        signed == t # <<>> /\ Head(t) \in {"-", "+"}
        body == IF signed THEN Tail(t) ELSE t
        ds == DigitPrefix(body)
    IN  IF ds = <<>> THEN [nan |-> TRUE, val |-> 0]
        ELSE [nan |-> FALSE,
              val |-> IF neg THEN -DigitsVal(ds, 0) ELSE DigitsVal(ds, 0)]

stringToCard(s) ==
    LET suit == IF s = <<>> THEN "" ELSE s[Len(s)]
        r == IF s = <<>> THEN <<>> ELSE SubSeq(s, 1, Len(s) - 1)
        parsed == ParseInt(r)
    IN  IF suit \notin SuitSet
        THEN [ok |-> FALSE, err |-> "Invalid suit", card |-> [suit |-> "none", rank |-> 0]]
        ELSE IF r = <<"A">> THEN [ok |-> TRUE, err |-> "none", card |-> [suit |-> suit, rank |-> 14]]
        ELSE IF r = <<"K">> THEN [ok |-> TRUE, err |-> "none", card |-> [suit |-> suit, rank |-> 13]]
        ELSE IF r = <<"Q">> THEN [ok |-> TRUE, err |-> "none", card |-> [suit |-> suit, rank |-> 12]]
        ELSE IF r = <<"J">> THEN [ok |-> TRUE, err |-> "none", card |-> [suit |-> suit, rank |-> 11]]
        ELSE IF parsed.nan
        THEN [ok |-> FALSE, err |-> "Invalid rank", card |-> [suit |-> "none", rank |-> 0]]
        ELSE [ok |-> TRUE, err |-> "none", card |-> [suit |-> suit, rank |-> parsed.val]]

(***************************************************************************)
(* compareCards                                                            *)
(***************************************************************************)
\* compareCards without the trump rule
compareCardsNoTrump(a, b, lead, trump) ==
    LET aLead == a.suit = lead
        bLead == b.suit = lead
    IN  IF aLead /\ ~bLead THEN 1
        ELSE IF ~aLead /\ bLead THEN -1
        ELSE IF a.suit # b.suit THEN 0
        ELSE IF a.rank = b.rank THEN 0
        ELSE IF a.rank > b.rank THEN 1 ELSE -1

compareCards(a, b, lead, trump) ==
    LET aTrump == a.suit = trump
        bTrump == b.suit = trump
        aLead == a.suit = lead
        bLead == b.suit = lead
    IN  IF aTrump /\ ~bTrump THEN 1
        ELSE IF ~aTrump /\ bTrump THEN -1
        ELSE IF aLead /\ ~bLead THEN 1
        ELSE IF ~aLead /\ bLead THEN -1
        ELSE IF a.suit # b.suit THEN 0
        ELSE IF a.rank = b.rank THEN 0
        ELSE IF a.rank > b.rank THEN 1 ELSE -1

(***************************************************************************)
(* buildSchedule                                                           *)
(***************************************************************************)
\* buildSchedule with the descending run stopping at 3
buildScheduleShort(X) ==
    [i \in 1..X |-> 1] \o [k \in 1..6 |-> k + 1] \o [i \in 1..X |-> 8]
        \o [k \in 1..5 |-> 8 - k] \o [i \in 1..X |-> 1]

buildSchedule(X) ==
    [i \in 1..X |-> 1] \o [k \in 1..6 |-> k + 1] \o [i \in 1..X |-> 8]
        \o [k \in 1..6 |-> 8 - k] \o [i \in 1..X |-> 1]

(***************************************************************************)
(* _minRankForPlayers / _createBaseDeck                                    *)
(***************************************************************************)
minRankForPlayers(n) == 15 - 2 * n

SuitCards(s, minRank) ==
    LET rs == SelectSeq(RANKS_ASC, LAMBDA r : r >= minRank)
    IN  [i \in 1..Len(rs) |-> [suit |-> s, rank |-> rs[i]]]

\* _createBaseDeck keeping the 2n lowest ranks of each suit, not the highest
createBaseDeckKeepLow(n) ==
    LET needed == 8 * n
        rs == SelectSeq(RANKS_ASC, LAMBDA r : r <= 2 * n + 1)
        deck == [i \in 1..(4 * Len(rs)) |->
                    [suit |-> SUITS[((i - 1) \div Len(rs)) + 1],
                     rank |-> rs[((i - 1) % Len(rs)) + 1]]]
    IN  IF Len(deck) # needed
        THEN [ok |-> FALSE, err |-> "Deck size mismatch", deck |-> <<>>]
        ELSE [ok |-> TRUE, err |-> "none", deck |-> deck]

\* _createBaseDeck without the check of the size
createBaseDeckUnchecked(n) ==
    LET minRank == minRankForPlayers(n)
    IN  [ok |-> TRUE, err |-> "none",
         deck |-> SuitCards(SUITS[1], minRank) \o SuitCards(SUITS[2], minRank)
                    \o SuitCards(SUITS[3], minRank) \o SuitCards(SUITS[4], minRank)]

createBaseDeck(n) ==
    LET needed == 8 * n
        minRank == minRankForPlayers(n)
        deck == SuitCards(SUITS[1], minRank) \o SuitCards(SUITS[2], minRank)
                  \o SuitCards(SUITS[3], minRank) \o SuitCards(SUITS[4], minRank)
    IN  IF Len(deck) # needed
        THEN [ok |-> FALSE, err |-> "Deck size mismatch", deck |-> <<>>]
        ELSE [ok |-> TRUE, err |-> "none", deck |-> deck]

(***************************************************************************)
(* shuffle: Math.random can produce every permutation of the deck.  The    *)
(* exploration takes MaxSeeds streams of random values; each stream gives  *)
(* every hand of the match its own permutation.  Permutation k reads the   *)
(* base deck with a stride that is coprime with every deck size (24, 32,   *)
(* 40, 48), from an offset that depends on k.                              *)
(***************************************************************************)
Strides == <<7, 11, 13, 17, 19, 23>>

Permute(deck, k) ==
    LET N == Len(deck)
        stride == Strides[(k % Len(Strides)) + 1]
        shift == 5 * k
    IN  [i \in 1..N |-> deck[((stride * i + shift) % N) + 1]]

\* shuffle of the deck for the hand at index h, on the stream `seed`
shuffle(deck, seed, h) == Permute(deck, 3 * h + seed)

(***************************************************************************)
(* Accessors of WhistGame                                                  *)
(***************************************************************************)
numPlayers == Len(playerIds)

HandSizeAt(sched, h) ==
    IF h + 1 \in 1..Len(sched) /\ sched[h + 1] # 0 THEN sched[h + 1] ELSE 1

currentHandSize == HandSizeAt(schedule, handIndex)

getCurrentBidder == playerIds[bidTurnIndex + 1]

getCurrentPlayer ==
    IF phase # "playing" THEN "none"
    ELSE playerIds[(IF playTurnIndex = Null THEN 0 ELSE playTurnIndex) + 1]

dealerId == playerIds[dealerIndex + 1]

\* the stored value of a map at a key, undefined (Null) when the key is absent
BidOf(p) == IF p \in DOMAIN bids THEN bids[p] ELSE Null

RECURSIVE SumBidsFrom(_, _)
SumBidsFrom(i, excludePid) ==
    IF i > Len(playerIds) THEN 0
    ELSE (IF playerIds[i] # excludePid /\ BidOf(playerIds[i]) # Null
          THEN BidOf(playerIds[i]) ELSE 0) + SumBidsFrom(i + 1, excludePid)

sumBidsSoFar(excludePid) == SumBidsFrom(1, excludePid)

hasSuit(pid, suit) ==
    IF suit = "none" THEN FALSE
    ELSE \E i \in 1..Len(hands[pid]) : hands[pid][i].suit = suit

HasCard(pid, card) == \E i \in 1..Len(hands[pid]) : hands[pid][i] = card

\* a removal that drops the last card of the hand, whichever card was named
removeCardFromHandLast(hand, card) == SubSeq(hand, 1, Len(hand) - 1)

\* _removeCardFromHand: the hand without its first occurrence of the card
removeCardFromHand(hand, card) ==
    LET idx == CHOOSE i \in 1..Len(hand) :
                   hand[i] = card /\ \A j \in 1..(i - 1) : hand[j] # card
    IN  SubSeq(hand, 1, idx - 1) \o SubSeq(hand, idx + 1, Len(hand))

Put(f, k, v) == [x \in (DOMAIN f) \cup {k} |-> IF x = k THEN v ELSE f[x]]

IndexOf(seq, x) ==
    IF \E i \in 1..Len(seq) : seq[i] = x
    THEN (CHOOSE i \in 1..Len(seq) : seq[i] = x /\ \A j \in 1..(i - 1) : seq[j] # x) - 1
    ELSE -1

(***************************************************************************)
(* The deal of startHand                                                   *)
(***************************************************************************)
\* a.suit.localeCompare(b.suit) on the four suit letters
SuitOrder(s) == CASE s = "C" -> 1 [] s = "D" -> 2 [] s = "H" -> 3 [] s = "S" -> 4

CardBefore(a, b) ==
    IF a.suit = b.suit THEN a.rank < b.rank ELSE SuitOrder(a.suit) < SuitOrder(b.suit)

\* Array.prototype.sort with the comparator of startHand, on distinct cards
RECURSIVE SortCards(_)
SortCards(S) ==
    IF S = {} THEN <<>>
    ELSE LET m == CHOOSE c \in S : \A d \in S \ {c} : CardBefore(c, d)
         IN  <<m>> \o SortCards(S \ {m})

sortHand(h) == SortCards(Range(h))

\* the cards popped for pid: pop j (0-based) takes deck[N - j] and goes to the
\* seat (startIndex + j mod n) mod n
DealtTo(pid, deck, ids, startIndex, handSize) ==
    LET n == Len(ids)
        N == Len(deck)
        pops == [j \in 1..Min(handSize * n, N) |-> j - 1]
        mine == SelectSeq(pops, LAMBDA j : ids[((startIndex + (j % n)) % n) + 1] = pid)
    IN  [i \in 1..Len(mine) |-> deck[N - mine[i]]]

(***************************************************************************)
(* Trick resolution and scoring                                            *)
(***************************************************************************)
\* the loop of playCard that finds the winner: returns the index (1-based)
\* of the winning entry
RECURSIVE ResolveFrom(_, _, _, _, _)
ResolveFrom(trick, i, best, lead, trump) ==
    IF i > Len(trick) THEN best
    ELSE IF compareCards(trick[i].card, trick[best].card, lead, trump) = 1
         THEN ResolveFrom(trick, i + 1, i, lead, trump)
         ELSE ResolveFrom(trick, i + 1, best, lead, trump)

resolveTrick(trick, lead, trump) == trick[ResolveFrom(trick, 2, 1, lead, trump)].pid

\* the loop body without the reset of the streak at the limit
scoreSeatEveryHandBonus(bid, won, score, st) ==
    LET success == bid = won
        outcome == IF success THEN "+" ELSE "-"
        base == IF success THEN score + ExactBonus + won
                ELSE score - Abs((IF bid = Null THEN 0 ELSE bid) - won)
        counted == IF st.type = outcome
                   THEN [type |-> outcome, count |-> st.count + 1]
                   ELSE [type |-> outcome, count |-> 1]
    IN  IF counted.count >= StreakLimit
        THEN [score |-> IF outcome = "+" THEN base + StreakBonus ELSE base - StreakBonus,
              streak |-> [type |-> outcome, count |-> counted.count], mid |-> base]
        ELSE [score |-> base, streak |-> counted, mid |-> base]

\* the loop body with an exact bid worth 10 + won
scoreSeatFlatTen(bid, won, score, st) ==
    LET success == bid = won
        outcome == IF success THEN "+" ELSE "-"
        base == IF success THEN score + 10 + won
                ELSE score - Abs((IF bid = Null THEN 0 ELSE bid) - won)
        counted == IF st.type = outcome
                   THEN [type |-> outcome, count |-> st.count + 1]
                   ELSE [type |-> outcome, count |-> 1]
    IN  IF counted.count >= StreakLimit
        THEN [score |-> IF outcome = "+" THEN base + StreakBonus ELSE base - StreakBonus,
              streak |-> [type |-> "none", count |-> 0], mid |-> base]
        ELSE [score |-> base, streak |-> counted, mid |-> base]

\* the loop body with a count that goes on when the outcome changes
scoreSeatKeepCount(bid, won, score, st) ==
    LET success == bid = won
        outcome == IF success THEN "+" ELSE "-"
        base == IF success THEN score + ExactBonus + won
                ELSE score - Abs((IF bid = Null THEN 0 ELSE bid) - won)
        counted == IF st.type = outcome
                   THEN [type |-> outcome, count |-> st.count + 1]
                   ELSE [type |-> outcome, count |-> st.count + 1]
    IN  IF counted.count >= StreakLimit
        THEN [score |-> IF outcome = "+" THEN base + StreakBonus ELSE base - StreakBonus,
              streak |-> [type |-> "none", count |-> 0], mid |-> base]
        ELSE [score |-> base, streak |-> counted, mid |-> base]

\* the body of the loop of _scoreHand for one seat: the seat's new score and
\* streak, and `mid`, its score once the bid is scored, before the streak is
scoreSeat(bid, won, score, st) ==
    LET success == bid = won
        outcome == IF success THEN "+" ELSE "-"
        base == IF success THEN score + ExactBonus + won
                ELSE score - Abs((IF bid = Null THEN 0 ELSE bid) - won)
        counted == IF st.type = outcome
                   THEN [type |-> outcome, count |-> st.count + 1]
                   ELSE [type |-> outcome, count |-> 1]
    IN  IF counted.count >= StreakLimit
        THEN [score |-> IF outcome = "+" THEN base + StreakBonus ELSE base - StreakBonus,
              streak |-> [type |-> "none", count |-> 0], mid |-> base]
        ELSE [score |-> base, streak |-> counted, mid |-> base]

\* the bid of an automated seat without the move off the dealer's forbidden
\* value
botBidNoHook(handSize, high, isDealer, sumOthers) ==
    IF high > handSize THEN handSize ELSE IF high < 0 THEN 0 ELSE high

\* the bid of an automated seat (the bidding callback of maybeBotAct): the
\* number of its cards of rank J or higher, kept within 0..handSize and, for
\* the dealer, moved off handSize minus the sum of the others' bids
botBid(handSize, high, isDealer, sumOthers) ==
    LET est == IF high > handSize THEN handSize ELSE IF high < 0 THEN 0 ELSE high
        forbidden == handSize - sumOthers
    IN  IF isDealer /\ est = forbidden
        THEN (IF est = handSize THEN (IF handSize - 1 < 0 THEN 0 ELSE handSize - 1)
              ELSE est + 1)
        ELSE est

\* _scoreHand: the seats are scored in playerIds order; `won` is tricksWon
\* after the last trick.  Returns the new totalScores and streaks.
RECURSIVE ScoreFrom(_, _, _, _)
ScoreFrom(i, won, scores, strk) ==
    IF i > Len(playerIds) THEN [scores |-> scores, streaks |-> strk]
    ELSE LET pid == playerIds[i]
             st == IF pid \in DOMAIN strk THEN strk[pid] ELSE [type |-> "none", count |-> 0]
             r == scoreSeat(BidOf(pid), won[pid], scores[pid], st)
         IN  ScoreFrom(i + 1, won, Put(scores, pid, r.score), Put(strk, pid, r.streak))

scoreHand(won) == ScoreFrom(1, won, totalScores, streaks)

(***************************************************************************)
(* The session: constructor and the phase-gated calls                      *)
(***************************************************************************)
IdPool == <<"a", "b", "c", "d", "e", "f">>

\* room.players.map(p => p.id) of a room with n seats
Roster(n) == SubSeq(IdPool, 1, n)

\* the session driven directly, with no Room around it
NoRoom == [game |-> TRUE]

NoCall == [op |-> "new", trickEnded |-> FALSE, trickWinner |-> "none", err |-> "none"]
Idle == [fn |-> "none"]

\* mode.script: the index of the last hand that is played along the fixed line
\* of play (Null: none); mode.trace: whether calls that throw are recorded in
\* `last`; mode.rejoin: whether seats rejoin under a new identity
FreeRun == [script |-> Null, trace |-> FALSE, rejoin |-> FALSE]

\* the hand in progress is played along the fixed line of play
Scripted ==
    /\ mode.script # Null
    /\ handIndex < mode.script \/ (handIndex = mode.script /\ phase # "hand_end")

\* accepted calls are explored up to this many per session, not counting the
\* fixed line of play
StepBudget ==
    IF "budget" \in DOMAIN mode THEN mode.budget
    ELSE IF mode.script = Len(schedule) - 2 THEN EndSteps
    ELSE IF mode.script # Null THEN LateSteps
    ELSE IF mode.trace THEN TraceSteps
    ELSE IF numPlayers = MinPlayers THEN MaxSteps ELSE WideSteps

Tick ==
    IF Scripted THEN UNCHANGED steps
    ELSE steps < StepBudget /\ steps' = steps + 1

Accepted(op) ==
    /\ Tick
    /\ last' = [op |-> op, trickEnded |-> FALSE, trickWinner |-> "none", err |-> "none"]
    /\ UNCHANGED <<rng, pure, mode>>

\* a call that throws: every throw of placeBid, chooseTrump, playCard, nextHand
\* and resumeAfterTrick comes before the first write, so the session is as it
\* was; the caller gets the error
Rejected(op, err) ==
    IF mode.trace
    THEN /\ last' = [op |-> op, trickEnded |-> FALSE, trickWinner |-> "none", err |-> err]
         /\ UNCHANGED <<gameVars, rng, steps, pure, played, mode, roomState>>
    ELSE UNCHANGED vars

\* new WhistGame({ playerIds, dealerIndex: 0 })
Construct(ids) ==
    /\ playerIds = ids
    /\ dealerIndex = 0
    /\ schedule = buildSchedule(Len(ids))
    /\ handIndex = 0
    /\ totalScores = [p \in Range(ids) |-> 0]
    /\ streaks = [p \in Range(ids) |-> [type |-> "none", count |-> 0]]
    /\ phase = "waiting"
    /\ trumpSuit = "none"
    /\ hands = [p \in Range(ids) |-> <<>>]
    /\ bids = [p \in Range(ids) |-> Null]
    /\ tricksWon = [p \in Range(ids) |-> 0]
    /\ currentTrick = <<>>
    /\ leadSuit = "none"
    /\ pendingPlayTurnIndex = Null
    /\ bidTurnIndex = 0
    /\ playTurnIndex = Null

Init ==
    /\ \E n \in MinPlayers..MaxPlayers : Construct(Roster(n))
    /\ rng \in 1..MaxSeeds
    /\ last = NoCall
    /\ steps = 0
    /\ pure = Idle
    /\ played = {}
    /\ mode = FreeRun
    /\ roomState = NoRoom

\* a deal that takes the trump from the deck whatever the hand size is
trumpAtDealAlways(handSize, deck) == deck[1].suit

\* the trump after _resetForNextHand and the pick of startHand: the suit of
\* the first card of the shuffled deck, unset for a hand of 8 cards
trumpAtDeal(handSize, deck) ==
    IF handSize # ChooseTrumpHandSize THEN deck[1].suit ELSE "none"

\* _resetForNextHand followed by the body of startHand, for the hand at index
\* h dealt by the dealer at index d
DealFor(ids, sched, h, d) ==
    LET n == Len(ids)
        handSize == HandSizeAt(sched, h)
        base == createBaseDeck(n)
        deck == shuffle(base.deck, rng, h)
        startIndex == (d + 1) % n
    IN  /\ base.ok
        /\ trumpSuit' = trumpAtDeal(handSize, deck)
        /\ hands' = [p \in Range(ids) |->
                        sortHand(DealtTo(p, deck, ids, startIndex, handSize))]
        /\ bids' = [p \in Range(ids) |-> Null]
        /\ tricksWon' = [p \in Range(ids) |-> 0]
        /\ currentTrick' = <<>>
        /\ leadSuit' = "none"
        /\ pendingPlayTurnIndex' = Null
        /\ bidTurnIndex' = startIndex
        /\ phase' = IF handSize = ChooseTrumpHandSize THEN "choose_trump" ELSE "bidding"
        /\ playTurnIndex' = Null
        /\ played' = {}

\* the deal for the session as it is
DealHand(h, d) == DealFor(playerIds, schedule, h, d)

\* startGame of the server: startHand right after the constructor
StartHand ==
    /\ phase = "waiting"
    /\ DealHand(handIndex, dealerIndex)
    /\ Accepted("startHand")
    /\ UNCHANGED <<playerIds, dealerIndex, schedule, handIndex, totalScores, streaks>>

\* the checks of placeBid without the dealer's
PlaceBidErrorNoHook(pid, bid) ==
    IF phase # "bidding" THEN "Not in bidding phase"
    ELSE IF pid # getCurrentBidder THEN "Not your turn to bid"
    ELSE IF bid < 0 \/ bid > currentHandSize THEN "Bid must be an integer 0..handSize"
    ELSE "none"

\* the checks of placeBid with the dealer's forbidden value off by one
PlaceBidErrorHookOffByOne(pid, bid) ==
    IF phase # "bidding" THEN "Not in bidding phase"
    ELSE IF pid # getCurrentBidder THEN "Not your turn to bid"
    ELSE IF bid < 0 \/ bid > currentHandSize THEN "Bid must be an integer 0..handSize"
    ELSE IF pid = dealerId /\ bid = currentHandSize - sumBidsSoFar(pid) - 1
    THEN "Dealer cannot bid to make total bids equal handSize"
    ELSE "none"

\* the checks of placeBid, in order; the bid is an integer (the server hands
\* over parseInt of the wire value)
PlaceBidError(pid, bid) ==
    IF phase # "bidding" THEN "Not in bidding phase"
    ELSE IF pid # getCurrentBidder THEN "Not your turn to bid"
    ELSE IF bid < 0 \/ bid > currentHandSize THEN "Bid must be an integer 0..handSize"
    ELSE IF pid = dealerId /\ bid = currentHandSize - sumBidsSoFar(pid)
    THEN "Dealer cannot bid to make total bids equal handSize"
    ELSE "none"

\* a placeBid that records the bid before the dealer's check
PlaceBidRecordFirst(pid, bid) ==
    LET err == PlaceBidError(pid, bid)
        newBids == Put(bids, pid, bid)
        allBids == \A p \in Range(playerIds) : p \in DOMAIN newBids /\ newBids[p] # Null
    IN  IF err = "Dealer cannot bid to make total bids equal handSize"
        THEN /\ bids' = newBids
             /\ last' = [op |-> "placeBid", trickEnded |-> FALSE, trickWinner |-> "none",
                         err |-> err]
             /\ UNCHANGED <<playerIds, dealerIndex, schedule, handIndex, phase, totalScores,
                            streaks, trumpSuit, hands, tricksWon, currentTrick, leadSuit,
                            pendingPlayTurnIndex, bidTurnIndex, playTurnIndex>>
             /\ UNCHANGED <<rng, steps, pure, played, mode>>
        ELSE IF err # "none" THEN Rejected("placeBid", err)
        ELSE /\ bids' = newBids
             /\ bidTurnIndex' = (bidTurnIndex + 1) % numPlayers
             /\ IF allBids
                THEN /\ phase' = "playing"
                     /\ playTurnIndex' = (dealerIndex + 1) % numPlayers
                     /\ currentTrick' = <<>>
                     /\ leadSuit' = "none"
                ELSE UNCHANGED <<phase, playTurnIndex, currentTrick, leadSuit>>
             /\ Accepted("placeBid")
             /\ UNCHANGED played
             /\ UNCHANGED <<playerIds, dealerIndex, schedule, handIndex, totalScores,
                            streaks, trumpSuit, hands, tricksWon, pendingPlayTurnIndex>>

\* a placeBid that hands the first lead to the dealer
PlaceBidLeadByDealer(pid, bid) ==
    LET err == PlaceBidError(pid, bid)
        newBids == Put(bids, pid, bid)
        allBids == \A p \in Range(playerIds) : p \in DOMAIN newBids /\ newBids[p] # Null
    IN  IF err # "none" THEN Rejected("placeBid", err)
        ELSE /\ bids' = newBids
             /\ bidTurnIndex' = (bidTurnIndex + 1) % numPlayers
             /\ IF allBids
                THEN /\ phase' = "playing"
                     /\ playTurnIndex' = dealerIndex
                     /\ currentTrick' = <<>>
                     /\ leadSuit' = "none"
                ELSE UNCHANGED <<phase, playTurnIndex, currentTrick, leadSuit>>
             /\ Accepted("placeBid")
             /\ UNCHANGED played
             /\ UNCHANGED <<playerIds, dealerIndex, schedule, handIndex, totalScores,
                            streaks, trumpSuit, hands, tricksWon, pendingPlayTurnIndex>>

PlaceBid(pid, bid) ==
    LET err == PlaceBidError(pid, bid)
        newBids == Put(bids, pid, bid)
        allBids == \A p \in Range(playerIds) : p \in DOMAIN newBids /\ newBids[p] # Null
    IN  IF err # "none" THEN Rejected("placeBid", err)
        ELSE /\ bids' = newBids
             /\ bidTurnIndex' = (bidTurnIndex + 1) % numPlayers
             /\ IF allBids
                THEN /\ phase' = "playing"
                     /\ playTurnIndex' = (dealerIndex + 1) % numPlayers
                     /\ currentTrick' = <<>>
                     /\ leadSuit' = "none"
                ELSE UNCHANGED <<phase, playTurnIndex, currentTrick, leadSuit>>
             /\ Accepted("placeBid")
             /\ UNCHANGED played
             /\ UNCHANGED <<playerIds, dealerIndex, schedule, handIndex, totalScores,
                            streaks, trumpSuit, hands, tricksWon, pendingPlayTurnIndex>>

\* the checks of chooseTrump without the check of the phase
ChooseTrumpErrorAnyPhase(pid, suit) ==
    IF pid # getCurrentBidder THEN "Not your turn to choose trump"
    ELSE IF suit \notin SuitSet THEN "Invalid trump suit"
    ELSE "none"

ChooseTrumpError(pid, suit) ==
    IF phase # "choose_trump" THEN "Not in choose trump phase"
    ELSE IF pid # getCurrentBidder THEN "Not your turn to choose trump"
    ELSE IF suit \notin SuitSet THEN "Invalid trump suit"
    ELSE "none"

ChooseTrump(pid, suit) ==
    LET err == ChooseTrumpError(pid, suit)
    IN  IF err # "none" THEN Rejected("chooseTrump", err)
        ELSE /\ trumpSuit' = suit
             /\ phase' = "bidding"
             /\ Accepted("chooseTrump")
             /\ UNCHANGED played
             /\ UNCHANGED <<playerIds, dealerIndex, schedule, handIndex, totalScores,
                            streaks, hands, bids, tricksWon, currentTrick, leadSuit,
                            pendingPlayTurnIndex, bidTurnIndex, playTurnIndex>>

\* the checks of playCard without the duty to trump
PlayCardErrorNoTrumpDuty(pid, cardStr) ==
    LET parsed == stringToCard(cardStr)
        card == parsed.card
    IN  IF phase # "playing" THEN "Not in playing phase"
        ELSE IF pid # getCurrentPlayer THEN "Not your turn"
        ELSE IF ~parsed.ok THEN parsed.err
        ELSE IF ~HasCard(pid, card) THEN "You do not have that card"
        ELSE IF Len(currentTrick) > 0 /\ hasSuit(pid, leadSuit) /\ card.suit # leadSuit
        THEN "You must follow suit"
        ELSE "none"

\* the checks of playCard with a duty to trump that does not ask whether the
\* seat holds a trump
PlayCardErrorTrumpOnly(pid, cardStr) ==
    LET parsed == stringToCard(cardStr)
        card == parsed.card
        mustFollow == hasSuit(pid, leadSuit)
    IN  IF phase # "playing" THEN "Not in playing phase"
        ELSE IF pid # getCurrentPlayer THEN "Not your turn"
        ELSE IF ~parsed.ok THEN parsed.err
        ELSE IF ~HasCard(pid, card) THEN "You do not have that card"
        ELSE IF Len(currentTrick) > 0 /\ mustFollow /\ card.suit # leadSuit
        THEN "You must follow suit"
        ELSE IF Len(currentTrick) > 0 /\ ~mustFollow /\ card.suit # trumpSuit
        THEN "You must play trump if you do not have the lead suit"
        ELSE "none"

\* the checks of playCard, in order
PlayCardError(pid, cardStr) ==
    LET parsed == stringToCard(cardStr)
        card == parsed.card
        mustFollow == hasSuit(pid, leadSuit)
        mustTrump == trumpSuit # "none" /\ hasSuit(pid, trumpSuit)
    IN  IF phase # "playing" THEN "Not in playing phase"
        ELSE IF pid # getCurrentPlayer THEN "Not your turn"
        ELSE IF ~parsed.ok THEN parsed.err
        ELSE IF ~HasCard(pid, card) THEN "You do not have that card"
        ELSE IF Len(currentTrick) > 0 /\ mustFollow /\ card.suit # leadSuit
        THEN "You must follow suit"
        ELSE IF Len(currentTrick) > 0 /\ ~mustFollow /\ mustTrump /\ card.suit # trumpSuit
        THEN "You must play trump if you do not have the lead suit"
        ELSE "none"

\* a test for the last hand that looks one entry past the schedule
isLastHandOnePast == handIndex >= Len(schedule)

\* isLast of playCard: the hand in progress is the last of the schedule
isLastHand == handIndex >= Len(schedule) - 1

PlayCard(pid, cardStr) ==
    LET err == PlayCardError(pid, cardStr)
        playedCard == stringToCard(cardStr).card
        newHands == [hands EXCEPT ![pid] = removeCardFromHand(@, playedCard)]
        newLead == IF Len(currentTrick) = 0 THEN playedCard.suit ELSE leadSuit
        newTrick == Append(currentTrick, [pid |-> pid, card |-> playedCard])
        winner == resolveTrick(newTrick, newLead, trumpSuit)
        newWon == [tricksWon EXCEPT ![winner] = @ + 1]
        handOver == \A p \in Range(playerIds) : Len(newHands[p]) = 0
        scored == scoreHand(newWon)
        isLast == isLastHand
    IN  IF err # "none" THEN Rejected("playCard", err)
        ELSE /\ hands' = newHands
             /\ leadSuit' = newLead
             /\ currentTrick' = newTrick
             /\ played' = played \cup {playedCard}
             /\ Tick
             /\ UNCHANGED <<rng, pure, mode>>
             /\ IF Len(newTrick) < numPlayers
                THEN /\ playTurnIndex' =
                            ((IF playTurnIndex = Null THEN 0 ELSE playTurnIndex) + 1) % numPlayers
                     /\ last' = [op |-> "playCard", trickEnded |-> FALSE,
                                 trickWinner |-> "none", err |-> "none"]
                     /\ UNCHANGED <<tricksWon, totalScores, streaks, phase,
                                    pendingPlayTurnIndex>>
                ELSE /\ tricksWon' = newWon
                     /\ last' = [op |-> "playCard", trickEnded |-> TRUE,
                                 trickWinner |-> winner, err |-> "none"]
                     /\ IF handOver
                        THEN /\ totalScores' = scored.scores
                             /\ streaks' = scored.streaks
                             /\ phase' = IF isLast THEN "game_end" ELSE "hand_end"
                             /\ UNCHANGED pendingPlayTurnIndex
                        ELSE /\ phase' = "trick_pause"
                             /\ pendingPlayTurnIndex' = IndexOf(playerIds, winner)
                             /\ UNCHANGED <<totalScores, streaks>>
                     /\ UNCHANGED playTurnIndex
             /\ UNCHANGED <<playerIds, dealerIndex, schedule, handIndex, trumpSuit, bids,
                            bidTurnIndex>>

NextHandError == IF phase # "hand_end" THEN "Cannot start next hand now" ELSE "none"

NextHand ==
    IF NextHandError # "none" THEN Rejected("nextHand", NextHandError)
    ELSE /\ handIndex' = handIndex + 1
         /\ dealerIndex' = (dealerIndex + 1) % numPlayers
         /\ DealHand(handIndex + 1, (dealerIndex + 1) % numPlayers)
         /\ Accepted("nextHand")
         /\ UNCHANGED <<playerIds, schedule, totalScores, streaks>>

\* a guard that lets play resume after the last trick of the match as well
ResumeAfterTrickErrorAtEnd ==
    IF phase \notin {"trick_pause", "game_end"} THEN "Cannot resume trick now" ELSE "none"

ResumeAfterTrickError == IF phase # "trick_pause" THEN "Cannot resume trick now" ELSE "none"

\* a resumeAfterTrick that leaves the play turn where the trick ended
ResumeAfterTrickKeepTurn ==
    IF ResumeAfterTrickError # "none" THEN Rejected("resumeAfterTrick", ResumeAfterTrickError)
    ELSE /\ currentTrick' = <<>>
         /\ leadSuit' = "none"
         /\ playTurnIndex' = playTurnIndex
         /\ pendingPlayTurnIndex' = Null
         /\ phase' = "playing"
         /\ Accepted("resumeAfterTrick")
         /\ UNCHANGED played
         /\ UNCHANGED <<playerIds, dealerIndex, schedule, handIndex, totalScores, streaks,
                        trumpSuit, hands, bids, tricksWon, bidTurnIndex>>

\* a resumeAfterTrick that leaves the completed trick on the table
ResumeAfterTrickKeepTable ==
    IF ResumeAfterTrickError # "none" THEN Rejected("resumeAfterTrick", ResumeAfterTrickError)
    ELSE /\ UNCHANGED <<currentTrick, leadSuit>>
         /\ playTurnIndex' = IF pendingPlayTurnIndex # Null THEN pendingPlayTurnIndex
                             ELSE playTurnIndex
         /\ pendingPlayTurnIndex' = Null
         /\ phase' = "playing"
         /\ Accepted("resumeAfterTrick")
         /\ UNCHANGED played
         /\ UNCHANGED <<playerIds, dealerIndex, schedule, handIndex, totalScores, streaks,
                        trumpSuit, hands, bids, tricksWon, bidTurnIndex>>

ResumeAfterTrick ==
    IF ResumeAfterTrickError # "none" THEN Rejected("resumeAfterTrick", ResumeAfterTrickError)
    ELSE /\ currentTrick' = <<>>
         /\ leadSuit' = "none"
         /\ playTurnIndex' = IF pendingPlayTurnIndex # Null THEN pendingPlayTurnIndex
                             ELSE playTurnIndex
         /\ pendingPlayTurnIndex' = Null
         /\ phase' = "playing"
         /\ Accepted("resumeAfterTrick")
         /\ UNCHANGED played
         /\ UNCHANGED <<playerIds, dealerIndex, schedule, handIndex, totalScores, streaks,
                        trumpSuit, hands, bids, tricksWon, bidTurnIndex>>

(***************************************************************************)
(* Inputs of the calls.  A call made in the wrong phase is rejected        *)
(* whatever its arguments are, so one caller and one argument are enough   *)
(* there.                                                                  *)
(***************************************************************************)
\* every card of the 52-card pack
AllCards == {[suit |-> s, rank |-> r] : s \in SuitSet, r \in Range(RANKS_ASC)}

RankTokens == {<<"2">>, <<"3">>, <<"4">>, <<"5">>, <<"6">>, <<"7">>, <<"8">>, <<"9">>,
               <<"1", "0">>, <<"J">>, <<"Q">>, <<"K">>, <<"A">>}

\* rank token followed by one suit letter
WellFormedTokens == {rt \o <<s>> : rt \in RankTokens, s \in SuitSet}

MalformedTokens == {<<>>, <<"X">>, <<"A">>, <<"Z", "S">>, <<"1", "1", "S">>, <<"1", "S">>,
                    <<"-", "5", "H">>, <<" ", "9", "D">>, <<"9", "x", "C">>, <<"S">>}

HeldCards == UNION {Range(hands[p]) : p \in DOMAIN hands}
TrickCards == {currentTrick[i].card : i \in 1..Len(currentTrick)}

CallerInputs(ph) == IF phase = ph THEN Range(playerIds) ELSE {playerIds[1]}

\* the cards in the hands and on the table, a card of no deck, a token with
\* no suit and a token with no rank
TokenInputs ==
    IF phase = "playing"
    THEN {cardToString(c) : c \in HeldCards \cup TrickCards}
            \cup {<<"2", "S">>, <<"X">>, <<"Z", "S">>}
    ELSE {<<"A", "S">>}

BidInputs == IF phase = "bidding" THEN -1..(currentHandSize + 1) ELSE {0}

SuitInputs == IF phase = "choose_trump" THEN SuitSet \cup {"X"} ELSE {"S"}

Next ==
    \/ StartHand /\ UNCHANGED roomState
    \/ \E pid \in CallerInputs("bidding"), bid \in BidInputs :
          PlaceBid(pid, bid) /\ UNCHANGED roomState
    \/ \E pid \in CallerInputs("choose_trump"), suit \in SuitInputs :
          ChooseTrump(pid, suit) /\ UNCHANGED roomState
    \/ \E pid \in CallerInputs("playing"), t \in TokenInputs :
          PlayCard(pid, t) /\ UNCHANGED roomState
    \/ NextHand /\ UNCHANGED roomState
    \/ ResumeAfterTrick /\ UNCHANGED roomState

Spec == Init /\ [][Next]_vars

(***************************************************************************)
(* replacePlayerId, and the timer callbacks of the server.                 *)
(***************************************************************************)
\* a rekeying that copies the entry to the new id and keeps the old one
RekeyKeepOld(f, oldId, newId) ==
    IF oldId \in DOMAIN f
    THEN [k \in (DOMAIN f) \cup {newId} |-> IF k = newId THEN f[oldId] ELSE f[k]]
    ELSE f

\* the map f with the entry of oldId, if it has one, moved to newId
Rekey(f, oldId, newId) ==
    IF oldId \in DOMAIN f
    THEN [k \in ((DOMAIN f) \ {oldId}) \cup {newId} |-> IF k = newId THEN f[oldId] ELSE f[k]]
    ELSE f

\* a remap that takes the seat out of the list and puts the new id at its end
ReplacePlayerIdMoveSeat(oldId, newId) ==
    LET idx == IndexOf(playerIds, oldId)
    IN  IF oldId = newId \/ idx = -1 THEN UNCHANGED vars
        ELSE /\ playerIds' = Append(SelectSeq(playerIds, LAMBDA p : p # oldId), newId)
             /\ hands' = Rekey(hands, oldId, newId)
             /\ bids' = Rekey(bids, oldId, newId)
             /\ tricksWon' = Rekey(tricksWon, oldId, newId)
             /\ totalScores' = Rekey(totalScores, oldId, newId)
             /\ streaks' = Rekey(streaks, oldId, newId)
             /\ currentTrick' = [i \in 1..Len(currentTrick) |->
                                    IF currentTrick[i].pid = oldId
                                    THEN [currentTrick[i] EXCEPT !.pid = newId]
                                    ELSE currentTrick[i]]
             /\ Accepted("replacePlayerId")
             /\ UNCHANGED <<dealerIndex, schedule, handIndex, phase, trumpSuit, leadSuit,
                            pendingPlayTurnIndex, bidTurnIndex, playTurnIndex, played>>

ReplacePlayerId(oldId, newId) ==
    LET idx == IndexOf(playerIds, oldId)
    IN  IF oldId = newId \/ idx = -1 THEN UNCHANGED vars
        ELSE /\ playerIds' = [playerIds EXCEPT ![idx + 1] = newId]
             /\ hands' = Rekey(hands, oldId, newId)
             /\ bids' = Rekey(bids, oldId, newId)
             /\ tricksWon' = Rekey(tricksWon, oldId, newId)
             /\ totalScores' = Rekey(totalScores, oldId, newId)
             /\ streaks' = Rekey(streaks, oldId, newId)
             /\ currentTrick' = [i \in 1..Len(currentTrick) |->
                                    IF currentTrick[i].pid = oldId
                                    THEN [currentTrick[i] EXCEPT !.pid = newId]
                                    ELSE currentTrick[i]]
             /\ Accepted("replacePlayerId")
             /\ UNCHANGED <<dealerIndex, schedule, handIndex, phase, trumpSuit, leadSuit,
                            pendingPlayTurnIndex, bidTurnIndex, playTurnIndex, played>>

\* the callback of scheduleAutoNextHand
NextHandTimer == IF phase # "hand_end" THEN UNCHANGED vars ELSE NextHand

\* the callback of scheduleResumeAfterTrick
ResumeTimer == IF phase # "trick_pause" THEN UNCHANGED vars ELSE ResumeAfterTrick

(***************************************************************************)
(* MatchSpec: sessions that are played along a fixed line of play up to a  *)
(* late hand (the hand before the first 8-card hand, or the hand before    *)
(* the last one) and explored from there, and sessions explored from the   *)
(* start with the thrown errors on record.  The fixed line: the lowest     *)
(* accepted bid, the first accepted card of the hand, the first suit.      *)
(* The decks are shuffled by the stream of random values MaxSeeds.         *)
(***************************************************************************)
ScriptBid ==
    CHOOSE b \in 0..currentHandSize :
        /\ PlaceBidError(getCurrentBidder, b) = "none"
        /\ \A c \in 0..(b - 1) : PlaceBidError(getCurrentBidder, c) # "none"

ScriptCard ==
    LET h == hands[getCurrentPlayer]
        ok(i) == PlayCardError(getCurrentPlayer, cardToString(h[i])) = "none"
    IN  h[CHOOSE i \in 1..Len(h) : ok(i) /\ \A j \in 1..(i - 1) : ~ok(j)]

ScriptStep ==
    \/ phase = "waiting" /\ StartHand
    \/ phase = "choose_trump" /\ ChooseTrump(getCurrentBidder, SUITS[1])
    \/ phase = "bidding" /\ PlaceBid(getCurrentBidder, ScriptBid)
    \/ phase = "playing" /\ PlayCard(getCurrentPlayer, cardToString(ScriptCard))
    \/ phase = "trick_pause" /\ ResumeTimer
    \/ phase = "hand_end" /\ NextHandTimer

\* socket ids of connections that rejoin
FreshIds == <<"x", "y">>

RemappedSeats == {i \in 1..Len(playerIds) : playerIds[i] \notin Range(IdPool)}

\* the hand before the first 8-card hand, and the hand before the last one
EightEve(n) == n + 5
LastEve(n) == 3 * n + 10

MatchInit ==
    /\ \E n \in MinPlayers..MatchSeats :
          /\ Construct(Roster(n))
          /\ mode \in {[script |-> Null, trace |-> TRUE, rejoin |-> TRUE],
                       [script |-> EightEve(n), trace |-> TRUE, rejoin |-> FALSE],
                       [script |-> LastEve(n), trace |-> TRUE, rejoin |-> TRUE]}
    /\ rng = MaxSeeds
    /\ last = NoCall
    /\ steps = 0
    /\ pure = Idle
    /\ played = {}
    /\ roomState = NoRoom

MatchBidInputs ==
    IF phase = "bidding"
    THEN {-1, 0, currentHandSize, currentHandSize + 1}
    ELSE {0}

\* the tokens of TokenInputs for the seat whose turn it is; a seat that calls
\* out of turn is rejected whatever the token is, so one token is enough there
MatchTokenInputs(pid) ==
    IF phase = "playing" /\ pid # getCurrentPlayer THEN {<<"A", "S">>}
    ELSE TokenInputs

MatchNext ==
    \/ Scripted /\ ScriptStep /\ UNCHANGED roomState
    \/ ~Scripted /\ StartHand /\ UNCHANGED roomState
    \/ ~Scripted /\ \E pid \in CallerInputs("bidding"), bid \in MatchBidInputs :
                        PlaceBid(pid, bid) /\ UNCHANGED roomState
    \/ ~Scripted /\ \E pid \in CallerInputs("choose_trump"), suit \in SuitInputs :
                        ChooseTrump(pid, suit) /\ UNCHANGED roomState
    \/ ~Scripted /\ \E pid \in CallerInputs("playing") :
                        \E t \in MatchTokenInputs(pid) : PlayCard(pid, t) /\ UNCHANGED roomState
    \/ ~Scripted /\ NextHand /\ UNCHANGED roomState
    \/ ~Scripted /\ ResumeAfterTrick /\ UNCHANGED roomState
    \/ ~Scripted /\ NextHandTimer /\ UNCHANGED roomState
    \/ ~Scripted /\ ResumeTimer /\ UNCHANGED roomState
    \/ /\ ~Scripted
       /\ mode.rejoin
       /\ Cardinality(RemappedSeats) < MaxRemaps
       /\ \E oldId \in Range(playerIds) \cup {"z"}, newId \in Range(FreshIds) \ Range(playerIds) :
             ReplacePlayerId(oldId, newId) /\ UNCHANGED roomState

MatchSpec == MatchInit /\ [][MatchNext]_vars

(***************************************************************************)
(* The stateless helpers applied to inputs: PureSpec.  The session stays   *)
(* as constructed; `pure` holds the one application and its result, or    *)
(* the hands scored so far for one seat.                                   *)
(***************************************************************************)
\* the cards of the top PureRanks ranks
PureCards == {c \in AllCards : c.rank > 14 - PureRanks}

\* the tricks of a table of MinPlayers seats, one card per seat
PureTricks ==
    {<<[pid |-> IdPool[1], card |-> a], [pid |-> IdPool[2], card |-> b],
       [pid |-> IdPool[3], card |-> c]>> :
        a \in PureCards, b \in PureCards, c \in PureCards}

FreshSeat == [fn |-> "scoreSeat", score |-> 0,
              streak |-> [type |-> "none", count |-> 0], hist |-> <<>>]

PureInit ==
    /\ Construct(Roster(MinPlayers))
    /\ rng = 1
    /\ last = NoCall
    /\ steps = 0
    /\ pure = Idle
    /\ played = {}
    /\ mode = FreeRun
    /\ roomState = NoRoom

ApplyCreateBaseDeck(n) ==
    /\ pure' = [fn |-> "createBaseDeck", n |-> n, out |-> createBaseDeck(n)]
    /\ UNCHANGED <<gameVars, rng, last, steps, played, mode, roomState>>

ApplyBuildSchedule(n) ==
    /\ pure' = [fn |-> "buildSchedule", n |-> n, out |-> buildSchedule(n)]
    /\ UNCHANGED <<gameVars, rng, last, steps, played, mode, roomState>>

\* stringToCard(cardToString(card))
ApplyEncodeDecode(c) ==
    /\ pure' = [fn |-> "encodeDecode", card |-> c, token |-> cardToString(c),
                back |-> stringToCard(cardToString(c))]
    /\ UNCHANGED <<gameVars, rng, last, steps, played, mode, roomState>>

\* cardToString(stringToCard(token)), when stringToCard does not throw
ApplyDecodeEncode(t) ==
    /\ pure' = [fn |-> "decodeEncode", token |-> t, parsed |-> stringToCard(t),
                back |-> IF stringToCard(t).ok THEN cardToString(stringToCard(t).card)
                         ELSE <<>>]
    /\ UNCHANGED <<gameVars, rng, last, steps, played, mode, roomState>>

ApplyCompareCards(a, b, lead, trump) ==
    /\ pure' = [fn |-> "compareCards", a |-> a, b |-> b, lead |-> lead, trump |-> trump,
                out |-> compareCards(a, b, lead, trump)]
    /\ UNCHANGED <<gameVars, rng, last, steps, played, mode, roomState>>

\* the resolution of a full trick of distinct cards: the lead suit is the suit
\* of its first card
ApplyResolveTrick(trick, trump) ==
    /\ \A i, j \in 1..Len(trick) : i # j => trick[i].card # trick[j].card
    /\ pure' = [fn |-> "resolveTrick", trick |-> trick, lead |-> trick[1].card.suit,
                trump |-> trump,
                winner |-> resolveTrick(trick, trick[1].card.suit, trump)]
    /\ UNCHANGED <<gameVars, rng, last, steps, played, mode, roomState>>

\* one more hand scored for a seat, from the constructor's score and streak on
ApplyScoreSeat(bid, won) ==
    LET cur == IF pure.fn = "scoreSeat" THEN pure ELSE FreshSeat
        r == scoreSeat(bid, won, cur.score, cur.streak)
    IN  /\ pure.fn \in {"none", "scoreSeat"}
        /\ Len(cur.hist) < MaxScoredHands
        /\ pure' = [fn |-> "scoreSeat", score |-> r.score, streak |-> r.streak,
                    hist |-> Append(cur.hist,
                                [before |-> cur.streak, success |-> bid = won,
                                 bonus |-> r.score - r.mid, after |-> r.streak])]
        /\ UNCHANGED <<gameVars, rng, last, steps, played, mode, roomState>>

\* the bid policy for a seat that holds `high` cards of rank J or higher in a
\* hand of handSize cards, the other seats' recorded bids summing to sumOthers
ApplyBotBid(handSize, high, isDealer, sumOthers) ==
    /\ pure' = [fn |-> "botBid", handSize |-> handSize, high |-> high,
                isDealer |-> isDealer, sumOthers |-> sumOthers,
                out |-> botBid(handSize, high, isDealer, sumOthers)]
    /\ UNCHANGED <<gameVars, rng, last, steps, played, mode, roomState>>

\* one application from the idle state, or one more hand scored for the seat
PureNext ==
    \/ pure = Idle /\ \E n \in 0..MaxSeatInput : ApplyCreateBaseDeck(n)
    \/ pure = Idle /\ \E n \in 0..MaxSeatInput : ApplyBuildSchedule(n)
    \/ pure = Idle /\ \E c \in AllCards : ApplyEncodeDecode(c)
    \/ pure = Idle /\ \E t \in WellFormedTokens \cup MalformedTokens : ApplyDecodeEncode(t)
    \/ pure = Idle /\ \E a \in PureCards, b \in PureCards, lead \in SuitSet, trump \in SuitSet :
                        ApplyCompareCards(a, b, lead, trump)
    \/ pure = Idle /\ \E trick \in PureTricks, trump \in SuitSet : ApplyResolveTrick(trick, trump)
    \/ \E bid \in 0..MaxTricksInput, won \in 0..MaxTricksInput : ApplyScoreSeat(bid, won)
    \/ pure = Idle /\ \E handSize \in 1..MaxBidHand, isDealer \in BOOLEAN :
                        \E high \in 0..handSize, sumOthers \in 0..((MaxPlayers - 1) * handSize) :
                            ApplyBotBid(handSize, high, isDealer, sumOthers)

PureSpec == PureInit /\ [][PureNext]_vars

(***************************************************************************)
(* The deck, the schedule and the card tokens.                             *)
(***************************************************************************)
\* C1: for every seat count n in 3..6 the base deck is built without error and
\* holds exactly 8n pairwise distinct cards, exactly 2n of each of the four
\* suits, whose ranks in every suit are exactly 15-2n .. 14.
C1_BaseDeck ==
    (pure.fn = "createBaseDeck" /\ pure.n \in MinPlayers..MaxPlayers) =>
        LET deck == pure.out.deck
            n == pure.n
        IN  /\ pure.out.ok
            /\ Len(deck) = 8 * n
            /\ \A i, j \in 1..Len(deck) : i # j => deck[i] # deck[j]
            /\ \A i \in 1..Len(deck) : deck[i].suit \in SuitSet
            /\ \A s \in SuitSet :
                 /\ Cardinality({i \in 1..Len(deck) : deck[i].suit = s}) = 2 * n
                 /\ {deck[i].rank : i \in {k \in 1..Len(deck) : deck[k].suit = s}}
                      = (15 - 2 * n)..14

\* the deck of the largest table has been built: 48 cards from rank 3 up
C1_Witness ==
    /\ pure.fn = "createBaseDeck"
    /\ pure.n = MaxPlayers
    /\ Len(pure.out.deck) = 48
    /\ \E i \in 1..Len(pure.out.deck) : pure.out.deck[i].rank = 3

\* the i-th hand size (1-based) of the schedule the rules lay down for n seats:
\* n ones, 2..7, n eights, 7..2, n ones
ScheduleEntry(n, i) ==
    IF i <= n THEN 1
    ELSE IF i <= n + 6 THEN i - n + 1
    ELSE IF i <= 2 * n + 6 THEN 8
    ELSE IF i <= 2 * n + 12 THEN 8 - (i - (2 * n + 6))
    ELSE 1

\* C2: for every seat count n in 3..6 the schedule of a session has length 3n+12
\* and is n ones, then 2,3,4,5,6,7, then n eights, then 7,6,5,4,3,2, then n
\* ones; it is the same in every state the session reaches.
C2_Schedule ==
    /\ numPlayers \in MinPlayers..MaxPlayers
    /\ Len(schedule) = 3 * numPlayers + 12
    /\ \A i \in 1..Len(schedule) : schedule[i] = ScheduleEntry(numPlayers, i)

\* a session that has played its way into the first hand of two cards
C2_Witness ==
    /\ handIndex = numPlayers
    /\ phase = "playing"
    /\ schedule[handIndex + 1] = 2
    /\ \E p \in Range(playerIds) : totalScores[p] # 0

\* C3: the card encoding is lossless: for every rank 2..14 and suit S, H, D, C,
\* decoding the token of a card gives the card back, and for every well-formed
\* token (a rank token 2..10, J, Q, K, A followed by one suit letter) encoding
\* the decoded card gives the token back.
C3_RoundTrip ==
    /\ (pure.fn = "encodeDecode" /\ pure.card.rank \in 2..14 /\ pure.card.suit \in SuitSet)
          => (pure.back.ok /\ pure.back.card = pure.card)
    /\ (pure.fn = "decodeEncode" /\ pure.token \in WellFormedTokens)
          => (pure.parsed.ok /\ pure.back = pure.token)

\* the two-character rank token "10" has made the round trip from the token side
C3_Witness ==
    /\ pure.fn = "decodeEncode"
    /\ pure.token = <<"1", "0", "H">>
    /\ pure.parsed.ok
    /\ pure.parsed.card = [suit |-> "H", rank |-> 10]
    /\ pure.back = <<"1", "0", "H">>

(***************************************************************************)
(* Bidding.                                                                *)
(***************************************************************************)
\* the sum of the bids recorded for the seats of S in the current hand
RECURSIVE RecordedBidSum(_)
RecordedBidSum(S) ==
    IF S = {} THEN 0
    ELSE LET p == CHOOSE q \in S : TRUE
         IN  (IF bids[p] # Null THEN bids[p] ELSE 0) + RecordedBidSum(S \ {p})

\* the one value the hook rule denies the dealer
ForbiddenDealerBid ==
    currentHandSize - RecordedBidSum(Range(playerIds) \ {dealerId})

AllBidsRecorded == \A p \in Range(playerIds) : bids[p] # Null

\* C4: in the bidding phase, when the dealer holds the bid turn and submits an
\* integer bid in 0..handSize, placeBid rejects it if and only if the bid equals
\* handSize minus the sum of the bids recorded for the non-dealer seats; a
\* rejected bid is not recorded and the turn does not move, an accepted one is
\* recorded and passes the turn on.
C4_DealerHook ==
    [][(phase = "bidding" /\ getCurrentBidder = dealerId) =>
          /\ \A b \in 0..currentHandSize :
                /\ (PlaceBidError(dealerId, b) # "none") <=> (b = ForbiddenDealerBid)
                /\ PlaceBid(dealerId, b) =>
                      IF b = ForbiddenDealerBid
                      THEN bids' = bids /\ bidTurnIndex' = bidTurnIndex /\ phase' = phase
                      ELSE /\ bids' = [bids EXCEPT ![dealerId] = b]
                           /\ bidTurnIndex' = (bidTurnIndex + 1) % numPlayers
          /\ bids'[dealerId] # ForbiddenDealerBid
      ]_vars

\* the dealer holds the turn of a two-card hand and may bid 0 or 2 but not 1
C4_Witness ==
    /\ phase = "bidding"
    /\ getCurrentBidder = dealerId
    /\ currentHandSize = 2
    /\ \A p \in Range(playerIds) \ {dealerId} : bids[p] # Null
    /\ ForbiddenDealerBid = 1

SeatHolds(pid, suit) == \E i \in 1..Len(hands[pid]) : hands[pid][i].suit = suit

\* the legality rule of the game for card c played by seat pid
LegalPlay(pid, c) ==
    /\ \E i \in 1..Len(hands[pid]) : hands[pid][i] = c
    /\ \/ Len(currentTrick) = 0
       \/ c.suit = leadSuit
       \/ /\ ~SeatHolds(pid, leadSuit)
          /\ (c.suit = trumpSuit \/ ~SeatHolds(pid, trumpSuit))

\* C6: in the playing phase playCard by the turn holder is accepted if and only
\* if the card is in that seat's hand and (the trick is empty, or the card is of
\* the lead suit, or the seat holds no card of the lead suit and the card is a
\* trump or the seat holds no trump).
C6_PlayLegality ==
    phase = "playing" =>
        \A c \in AllCards :
            (PlayCardError(getCurrentPlayer, cardToString(c)) = "none")
                <=> LegalPlay(getCurrentPlayer, c)

\* the turn holder cannot follow the lead, holds a trump and a card that is
\* neither: the trump is the only legal play
C6_Witness ==
    /\ phase = "playing"
    /\ Len(currentTrick) > 0
    /\ ~SeatHolds(getCurrentPlayer, leadSuit)
    /\ SeatHolds(getCurrentPlayer, trumpSuit)
    /\ \E i \in 1..Len(hands[getCurrentPlayer]) :
          hands[getCurrentPlayer][i].suit # trumpSuit

(***************************************************************************)
(* Resolving a trick.                                                      *)
(***************************************************************************)
SuitPlayed(trick, suit) == \E i \in 1..Len(trick) : trick[i].card.suit = suit

\* the entry of the highest-ranked card of the suit among those played
TopOfSuit(trick, suit) ==
    CHOOSE i \in 1..Len(trick) :
        /\ trick[i].card.suit = suit
        /\ \A j \in 1..Len(trick) :
              trick[j].card.suit = suit => trick[j].card.rank <= trick[i].card.rank

\* the entry the rules of the game give the trick to
RuleWinner(trick, lead, trump) ==
    IF SuitPlayed(trick, trump) THEN TopOfSuit(trick, trump) ELSE TopOfSuit(trick, lead)

\* C7: when a trick fills, the seat credited with it is the one that played the
\* highest-ranked trump if any trump was played, otherwise the one that played
\* the highest-ranked card of the lead suit; the winning card is a trump or of
\* the lead suit, and exactly one seat's tricks-won counter grows, by exactly 1.
C7_TrickWinner ==
    [][(phase = "playing" /\ Len(currentTrick) = numPlayers - 1
                          /\ Len(currentTrick') = numPlayers) =>
          LET w == RuleWinner(currentTrick', leadSuit', trumpSuit)
              seat == currentTrick'[w].pid
          IN  /\ currentTrick'[w].card.suit \in {trumpSuit, leadSuit'}
              /\ last'.trickEnded
              /\ last'.trickWinner = seat
              /\ tricksWon' = [tricksWon EXCEPT ![seat] = @ + 1]
      ]_vars

\* a trick has gone to a trump played on a higher-ranked card of the lead suit
C7_Witness ==
    /\ last.trickEnded
    /\ Len(currentTrick) = numPlayers
    /\ leadSuit # trumpSuit
    /\ \E i, j \in 1..Len(currentTrick) :
          /\ currentTrick[i].pid = last.trickWinner
          /\ currentTrick[i].card.suit = trumpSuit
          /\ currentTrick[j].card.suit = leadSuit
          /\ currentTrick[j].card.rank > currentTrick[i].card.rank
    /\ tricksWon[last.trickWinner] >= 1

\* a card that is neither a trump nor of the lead suit
OffSuit(c, lead, trump) == c.suit # lead /\ c.suit # trump

\* C8 as stated: for any fixed lead suit and trump suit compareCards is a
\* strict total order over the distinct cards of one trick (any two distinct
\* cards are comparable, the relation is antisymmetric and transitive), and the
\* declared trick winner is the maximum under that order.
C8_TotalOrder ==
    pure.fn = "resolveTrick" =>
        LET t == pure.trick
            cmp(i, j) == compareCards(t[i].card, t[j].card, pure.lead, pure.trump)
        IN  /\ \A i, j \in 1..Len(t) : i # j => cmp(i, j) # 0
            /\ \A i, j \in 1..Len(t) : cmp(i, j) = -cmp(j, i)
            /\ \A i, j, k \in 1..Len(t) : (cmp(i, j) = 1 /\ cmp(j, k) = 1) => cmp(i, k) = 1
            /\ \E w \in 1..Len(t) :
                  /\ t[w].pid = pure.winner
                  /\ \A j \in 1..Len(t) : j # w => cmp(w, j) = 1

\* C8: for any fixed lead suit and trump suit compareCards is a strict partial
\* order (irreflexive, antisymmetric, transitive); two distinct cards compare as
\* 0 exactly when they are of different suits and both are neither trump nor of
\* the lead suit, and are comparable otherwise; the declared trick winner is
\* strictly greater than every other card of the trick.
C8_PartialOrder ==
    /\ pure.fn = "compareCards" =>
          /\ pure.a = pure.b => pure.out = 0
          /\ pure.out = -compareCards(pure.b, pure.a, pure.lead, pure.trump)
          /\ \A c \in PureCards :
                (pure.out = 1 /\ compareCards(pure.b, c, pure.lead, pure.trump) = 1)
                    => compareCards(pure.a, c, pure.lead, pure.trump) = 1
          /\ (pure.out = 0) <=>
                \/ pure.a = pure.b
                \/ /\ pure.a.suit # pure.b.suit
                   /\ OffSuit(pure.a, pure.lead, pure.trump)
                   /\ OffSuit(pure.b, pure.lead, pure.trump)
    /\ pure.fn = "resolveTrick" =>
          \E w \in 1..Len(pure.trick) :
              /\ pure.trick[w].pid = pure.winner
              /\ \A j \in 1..Len(pure.trick) :
                    j # w => compareCards(pure.trick[w].card, pure.trick[j].card,
                                          pure.lead, pure.trump) = 1

\* a resolved trick holding two cards of different suits, neither a trump nor of
\* the lead suit, which compareCards leaves unordered
C8_Witness ==
    /\ pure.fn = "resolveTrick"
    /\ \E i, j \in 1..Len(pure.trick) :
          /\ pure.trick[i].card.suit # pure.trick[j].card.suit
          /\ OffSuit(pure.trick[i].card, pure.lead, pure.trump)
          /\ OffSuit(pure.trick[j].card, pure.lead, pure.trump)
          /\ compareCards(pure.trick[i].card, pure.trick[j].card, pure.lead, pure.trump) = 0
    /\ pure.winner = pure.trick[1].pid

(***************************************************************************)
(* Scoring a hand.                                                         *)
(***************************************************************************)
\* what a hand is worth before any streak bonus or penalty
HandPoints(bid, won) == IF bid = won THEN 5 + won ELSE -Abs(bid - won)

C10_StreakBonus ==
    pure.fn = "scoreSeat" =>
        \A i \in 1..Len(pure.hist) :
            (/\ i + 4 <= Len(pure.hist)
             /\ pure.hist[i].before.count = 0
             /\ \A k \in i..(i + 4) : pure.hist[k].success = pure.hist[i].success)
            => /\ \A k \in i..(i + 3) : pure.hist[k].bonus = 0
               /\ pure.hist[i + 4].bonus = (IF pure.hist[i].success THEN 10 ELSE -10)
               /\ pure.hist[i + 4].after = [type |-> "none", count |-> 0]

\* five failures in a row from the constructor's streak: the penalty has come
\* with the fifth, and the sixth hand, a success, starts a new streak from 0
C10_Witness ==
    /\ pure.fn = "scoreSeat"
    /\ Len(pure.hist) = 6
    /\ pure.hist[1].before.count = 0
    /\ \A k \in 1..5 : ~pure.hist[k].success
    /\ \A k \in 1..4 : pure.hist[k].bonus = 0
    /\ pure.hist[5].bonus = -10
    /\ pure.hist[6].before = [type |-> "none", count |-> 0]
    /\ pure.hist[6].success
    /\ pure.streak = [type |-> "+", count |-> 1]

(***************************************************************************)
(* C11  Card conservation within a hand                                    *)
(***************************************************************************)
RECURSIVE CardsHeldFrom(_)
\* the number of cards in the hands of the seats i, i + 1, ...
CardsHeldFrom(i) ==
    IF i > Len(playerIds) THEN 0
    ELSE Len(hands[playerIds[i]]) + CardsHeldFrom(i + 1)

\* a hand has been dealt: every phase but the one before the first deal
ActiveHand == phase # "waiting"

\* C11: in every state of an active hand, from the deal through bidding,
\* playing, the pause after a trick and the end of the hand, the cards held
\* by all seats and the cards already played in the hand number
\* currentHandSize * seat count together, and no card is held twice, by one
\* seat or by two, or both held and played.
C11_CardConservation ==
    ActiveHand =>
        /\ CardsHeldFrom(1) + Cardinality(played) = currentHandSize * numPlayers
        /\ \A p \in Range(playerIds) :
              \A i, j \in 1..Len(hands[p]) : i # j => hands[p][i] # hands[p][j]
        /\ \A p, q \in Range(playerIds) :
              p # q => Range(hands[p]) \cap Range(hands[q]) = {}
        /\ HeldCards \cap played = {}

\* the first trick of an 8-card hand is under way: two cards are on the
\* table, their seats hold seven cards and the seat to play holds eight
C11_Witness ==
    /\ phase = "playing"
    /\ currentHandSize = ChooseTrumpHandSize
    /\ Cardinality(played) = 2
    /\ Len(currentTrick) = 2
    /\ Len(hands[getCurrentPlayer]) = ChooseTrumpHandSize
    /\ \A i \in 1..2 : Len(hands[currentTrick[i].pid]) = ChooseTrumpHandSize - 1

(***************************************************************************)
(* C12  Phase automaton                                                    *)
(***************************************************************************)
\* the stated edges
PhaseEdges ==
    {<<"waiting", "choose_trump">>, <<"waiting", "bidding">>,
     <<"choose_trump", "bidding">>,
     <<"bidding", "playing">>,
     <<"playing", "trick_pause">>, <<"playing", "hand_end">>, <<"playing", "game_end">>,
     <<"trick_pause", "playing">>,
     <<"hand_end", "choose_trump">>, <<"hand_end", "bidding">>}

\* C12: the phase changes only along the edges waiting -> choose_trump or
\* bidding, choose_trump -> bidding, bidding -> playing, playing ->
\* trick_pause, hand_end or game_end, trick_pause -> playing, and hand_end ->
\* choose_trump or bidding of the next hand; no edge leaves game_end.
C12_PhaseEdges ==
    [][/\ phase' # phase => <<phase, phase'>> \in PhaseEdges
       /\ phase = "hand_end" /\ phase' # phase => handIndex' = handIndex + 1
       /\ phase = "game_end" => phase' = "game_end"]_vars

\* the last card of the match has been played: the session went from
\* playing to game_end at the last entry of the schedule
C12_Witness ==
    /\ phase = "game_end"
    /\ last.op = "playCard"
    /\ handIndex = Len(schedule) - 1

(***************************************************************************)
(* C13  Trump and the choose_trump phase                                   *)
(***************************************************************************)
\* the phases in which a trump has been fixed
TrumpPhases == {"bidding", "playing", "trick_pause", "hand_end", "game_end"}

\* C13: right after a deal the phase is choose_trump exactly when the hand
\* has 8 cards; once a hand has been dealt the trump is unset exactly while
\* the phase is choose_trump; in bidding, playing, trick_pause, hand_end and
\* game_end the trump is one of the four suits.
C13_TrumpPhase ==
    [][/\ (last'.op \in {"startHand", "nextHand"} /\ last'.err = "none") =>
              (phase' = "choose_trump" <=> currentHandSize' = 8)
       /\ ActiveHand' => (trumpSuit' = "none" <=> phase' = "choose_trump")
       /\ phase' \in TrumpPhases => trumpSuit' \in {"S", "H", "D", "C"}]_vars

\* an 8-card hand has just been dealt and waits for its trump
C13_Witness ==
    /\ last.op = "nextHand"
    /\ last.err = "none"
    /\ phase = "choose_trump"
    /\ currentHandSize = 8
    /\ trumpSuit = "none"
    /\ \A p \in Range(playerIds) : Len(hands[p]) = 8

(***************************************************************************)
(* C14  Rejected actions change nothing                                    *)
(***************************************************************************)
\* the thrown errors of the five operations
RejectionErrors ==
    {"Not in bidding phase", "Not your turn to bid", "Bid must be an integer 0..handSize",
     "Dealer cannot bid to make total bids equal handSize",
     "Not in choose trump phase", "Not your turn to choose trump", "Invalid trump suit",
     "Not in playing phase", "Not your turn", "Invalid suit", "Invalid rank",
     "You do not have that card",
     "You must follow suit", "You must play trump if you do not have the lead suit",
     "Cannot start next hand now", "Cannot resume trick now"}

\* C14: a call of placeBid, chooseTrump, playCard, nextHand or
\* resumeAfterTrick that is rejected (wrong phase, wrong turn holder, invalid
\* value) leaves every field of the session as it was.
C14_RejectedNoChange ==
    [][last'.err # "none" =>
          /\ last'.op \in {"placeBid", "chooseTrump", "playCard", "nextHand",
                           "resumeAfterTrick"}
          /\ last'.err \in RejectionErrors
          /\ UNCHANGED gameVars]_vars

\* the dealer's bid has just been rejected for completing the hand size,
\* after the other seats' bids were recorded
C14_Witness ==
    /\ last.op = "placeBid"
    /\ last.err = "Dealer cannot bid to make total bids equal handSize"
    /\ phase = "bidding"
    /\ getCurrentBidder = dealerId
    /\ bids[dealerId] = Null
    /\ \A p \in Range(playerIds) \ {dealerId} : bids[p] # Null

(***************************************************************************)
(* C15  game_end is absorbing                                              *)
(***************************************************************************)
\* the operations reached by the inbound game actions, the two timers and the
\* callbacks of the automated players
GameCalls == {"placeBid", "chooseTrump", "playCard", "nextHand", "resumeAfterTrick"}

\* C15: once the phase is game_end, no bid, trump choice, card play or
\* advance to the next hand, and no timer or automated-player callback,
\* changes the phase, the scores, the streaks, the bids, the tricks won, the
\* hands, the hand index or the dealer.
C15_GameEndFrozen ==
    [][phase = "game_end" /\ last'.op \in GameCalls =>
          UNCHANGED <<phase, totalScores, streaks, bids, tricksWon, hands, handIndex,
                      dealerIndex>>]_vars

\* the match is over and a request for the next hand has just been refused
C15_Witness ==
    /\ phase = "game_end"
    /\ handIndex = Len(schedule) - 1
    /\ last.op = "nextHand"
    /\ last.err = "Cannot start next hand now"

(***************************************************************************)
(* The hands as the server sends them to one viewer                        *)
(***************************************************************************)
\* the placeholder 'HIDDEN', as a token
Hidden == <<"H", "I", "D", "D", "E", "N">>

\* number of leading cards the trump chooser sees of an 8-card hand
ClearCards == 5

\* what buildHandsViewFor reads of the room's session
RoomOf(ids, hs) ==
    [playerIds |-> ids, hands |-> hs, phase |-> phase,
     currentHandSize |-> currentHandSize, currentBidder |-> getCurrentBidder]

\* the room of the session
Room == RoomOf(playerIds, hands)

\* a projection that shows every seat's cards to every viewer
buildHandsViewForOpen(room, viewerId) ==
    [pid \in Range(room.playerIds) |->
        [i \in 1..Len(room.hands[pid]) |-> cardToString(room.hands[pid][i])]]

\* a projection that shows the trump chooser one card more
buildHandsViewForSixClear(room, viewerId) ==
    [pid \in Range(room.playerIds) |->
        LET real == [i \in 1..Len(room.hands[pid]) |-> cardToString(room.hands[pid][i])]
        IN  IF pid = viewerId
            THEN IF /\ room.phase = "choose_trump"
                    /\ room.currentHandSize = ChooseTrumpHandSize
                    /\ pid = room.currentBidder
                 THEN [i \in 1..Len(real) |-> IF i - 1 <= ClearCards THEN real[i] ELSE Hidden]
                 ELSE real
            ELSE [i \in 1..Len(real) |-> Hidden]]

\* buildHandsViewFor: handsByPlayer for the viewer
buildHandsViewFor(room, viewerId) ==
    [pid \in Range(room.playerIds) |->
        LET real == [i \in 1..Len(room.hands[pid]) |-> cardToString(room.hands[pid][i])]
        IN  IF pid = viewerId
            THEN IF /\ room.phase = "choose_trump"
                    /\ room.currentHandSize = ChooseTrumpHandSize
                    /\ pid = room.currentBidder
                 THEN [i \in 1..Len(real) |-> IF i - 1 < ClearCards THEN real[i] ELSE Hidden]
                 ELSE real
            ELSE [i \in 1..Len(real) |-> Hidden]]

\* the sockets a projection is built for: the seats (sendStateToAll) and a
\* socket that holds no seat (sendStateToSocket)
Viewers == Range(playerIds) \cup {"z"}

(***************************************************************************)
(* C16  Other seats' hands are opaque                                      *)
(***************************************************************************)
\* the hands with every card replaced by one fixed card, except the
\* viewer's own
MaskedHands(v) ==
    [p \in DOMAIN hands |->
        IF p = v THEN hands[p]
        ELSE [i \in 1..Len(hands[p]) |-> [suit |-> "S", rank |-> 2]]]

\* C16: in the hand map built for a viewer v, the entry of every seat other
\* than v consists of placeholders only, as many as that seat holds cards;
\* the map is the one built from the state whose other hands hold different
\* cards in the same numbers, so two states that differ only in the contents
\* of the other seats' hands give v the same map.
C16_OthersOpaque ==
    \A v \in Viewers :
        LET view == buildHandsViewFor(Room, v)
        IN  /\ DOMAIN view = Range(playerIds)
            /\ \A s \in Range(playerIds) \ {v} :
                  /\ Len(view[s]) = Len(hands[s])
                  /\ \A i \in 1..Len(view[s]) : view[s][i] = Hidden
            /\ view = buildHandsViewFor(RoomOf(playerIds, MaskedHands(v)), v)

\* a trick of an 8-card hand is under way: the seats hold different numbers
\* of cards and the seat to play sees 7 placeholders for the seat that led
C16_Witness ==
    /\ phase = "playing"
    /\ currentHandSize = ChooseTrumpHandSize
    /\ Len(currentTrick) = 1
    /\ LET v == getCurrentPlayer
           s == currentTrick[1].pid
       IN  /\ Len(hands[v]) = ChooseTrumpHandSize
           /\ buildHandsViewFor(Room, v)[s] = [i \in 1..(ChooseTrumpHandSize - 1) |-> Hidden]
           /\ MaskedHands(v)[s] # hands[s]

(***************************************************************************)
(* C17  The trump chooser sees five cards                                  *)
(***************************************************************************)
\* the tokens of a seat's cards, in the order of the hand
RealTokens(p) == [i \in 1..Len(hands[p]) |-> cardToString(hands[p][i])]

\* C17: while the phase is choose_trump on an 8-card hand, the hand map built
\* for the seat that must choose the trump shows that seat's first 5 cards
\* in the clear and the other 3 as placeholders; in every other phase, and
\* for every other viewer, the viewer's own hand is shown in full.
C17_ChooserSeesFive ==
    \A v \in Range(playerIds) :
        LET own == buildHandsViewFor(Room, v)[v]
        IN  IF phase = "choose_trump" /\ currentHandSize = 8 /\ v = getCurrentBidder
            THEN /\ Len(own) = 8
                 /\ \A i \in 1..5 : own[i] = RealTokens(v)[i] /\ own[i] # Hidden
                 /\ \A i \in 6..8 : own[i] = Hidden
            ELSE own = RealTokens(v) /\ \A i \in 1..Len(own) : own[i] # Hidden

\* an 8-card hand waits for its trump: the chooser's map shows 5 cards and 3
\* placeholders, another seat's own map shows its 8 cards
C17_Witness ==
    /\ phase = "choose_trump"
    /\ currentHandSize = 8
    /\ LET v == getCurrentBidder
           own == buildHandsViewFor(Room, v)[v]
       IN  /\ Cardinality({i \in 1..Len(own) : own[i] = Hidden}) = 3
           /\ Cardinality({i \in 1..Len(own) : own[i] # Hidden}) = 5
    /\ \E w \in Range(playerIds) \ {getCurrentBidder} :
          buildHandsViewFor(Room, w)[w] = RealTokens(w) /\ Len(RealTokens(w)) = 8

(***************************************************************************)
(* C18  A rejoin keeps the seat's data under the new identity              *)
(***************************************************************************)
\* C18: replacePlayerId(old, new) with old seated and new not seated leaves
\* the seat's hand, bid, tricks won, score and streak as they were, keyed by
\* the new identity, and afterwards the old identity is in none of the seat
\* list, the hands, the bids, the tricks won, the scores, the streaks and the
\* entries of the current trick.
C18_RemapKeepsSeat ==
    [][last'.op = "replacePlayerId" =>
          \E i \in 1..Len(playerIds) :
              LET old == playerIds[i]
                  new == playerIds'[i]
              IN  /\ old # new
                  /\ new \notin Range(playerIds)
                  /\ hands'[new] = hands[old]
                  /\ bids'[new] = bids[old]
                  /\ tricksWon'[new] = tricksWon[old]
                  /\ totalScores'[new] = totalScores[old]
                  /\ streaks'[new] = streaks[old]
                  /\ old \notin Range(playerIds')
                  /\ old \notin DOMAIN hands'
                  /\ old \notin DOMAIN bids'
                  /\ old \notin DOMAIN tricksWon'
                  /\ old \notin DOMAIN totalScores'
                  /\ old \notin DOMAIN streaks'
                  /\ \A j \in 1..Len(currentTrick') : currentTrick'[j].pid # old]_vars

\* a seat that has bid and has played into the current trick has just
\* rejoined: its card on the table and its bid carry the new identity
C18_Witness ==
    /\ last.op = "replacePlayerId"
    /\ phase = "playing"
    /\ \E i \in 1..Len(playerIds) :
          /\ playerIds[i] \in Range(FreshIds)
          /\ bids[playerIds[i]] # Null
          /\ hands[playerIds[i]] = <<>>
          /\ \E j \in 1..Len(currentTrick) : currentTrick[j].pid = playerIds[i]
    /\ \E i \in 1..Len(playerIds) : hands[playerIds[i]] # <<>>

(***************************************************************************)
(* C19  A rejoin moves no seat and no turn                                 *)
(***************************************************************************)
\* the identity at a seat after old was replaced by new
Renamed(p, old, new) == IF p = old THEN new ELSE p

\* C19: an identity remap changes no positional state: the number of seats,
\* the index of every seat, the dealer index, the bid-turn and play-turn
\* indices, the phase and the trump are unchanged and so are the data of
\* every other seat; the seat that held the turn holds it afterwards.
C19_RemapKeepsPositions ==
    [][last'.op = "replacePlayerId" =>
          \E i \in 1..Len(playerIds) :
              LET old == playerIds[i]
                  new == playerIds'[i]
              IN  /\ Len(playerIds') = Len(playerIds)
                  /\ \A j \in 1..Len(playerIds) : playerIds'[j] = Renamed(playerIds[j], old, new)
                  /\ dealerIndex' = dealerIndex
                  /\ bidTurnIndex' = bidTurnIndex
                  /\ playTurnIndex' = playTurnIndex
                  /\ pendingPlayTurnIndex' = pendingPlayTurnIndex
                  /\ phase' = phase
                  /\ trumpSuit' = trumpSuit
                  /\ \A p \in Range(playerIds) \ {old} :
                        /\ hands'[p] = hands[p]
                        /\ bids'[p] = bids[p]
                        /\ tricksWon'[p] = tricksWon[p]
                        /\ totalScores'[p] = totalScores[p]
                        /\ streaks'[p] = streaks[p]
                  /\ Len(currentTrick') = Len(currentTrick)
                  /\ \A j \in 1..Len(currentTrick) :
                        /\ currentTrick'[j].card = currentTrick[j].card
                        /\ currentTrick'[j].pid = Renamed(currentTrick[j].pid, old, new)
                  /\ getCurrentBidder' = Renamed(getCurrentBidder, old, new)
                  /\ getCurrentPlayer' = Renamed(getCurrentPlayer, old, new)
                  /\ dealerId' = Renamed(dealerId, old, new)]_vars

\* the seat whose turn it is to play, which is not the first seat, has just
\* rejoined in the middle of a trick and still holds the turn
C19_Witness ==
    /\ last.op = "replacePlayerId"
    /\ phase = "playing"
    /\ currentTrick # <<>>
    /\ Len(currentTrick) < numPlayers
    /\ getCurrentPlayer \in Range(FreshIds)
    /\ playTurnIndex > 0
    /\ hands[getCurrentPlayer] # <<>>

RECURSIVE TricksWonSum(_)
TricksWonSum(S) ==
    IF S = {} THEN 0
    ELSE LET p == CHOOSE q \in S : TRUE
         IN  tricksWon[p] + TricksWonSum(S \ {p})

\* C21: in every hand that is scored at least one seat has a bid different
\* from its tricks won: the tricks won by all seats sum to the hand size and
\* the bids do not.
C21_SomeSeatFails ==
    phase \in {"hand_end", "game_end"} =>
        /\ TricksWonSum(Range(playerIds)) = currentHandSize
        /\ RecordedBidSum(Range(playerIds)) # currentHandSize
        /\ \E p \in Range(playerIds) : bids[p] # tricksWon[p]

\* a hand of two cards has been scored in which every seat but one made its
\* bid
C21_Witness ==
    /\ phase = "hand_end"
    /\ currentHandSize = 2
    /\ \E p \in Range(playerIds) :
          /\ bids[p] # tricksWon[p]
          /\ \A q \in Range(playerIds) \ {p} : bids[q] = tricksWon[q]

(***************************************************************************)
(* C22: the number of accepted actions a match still needs.                *)
(***************************************************************************)
\* accepted actions of one whole hand of the given size: the deal, the
\* trump choice of an 8-card hand, one bid and handSize cards per seat, and
\* a resume after every trick but the last
HandActions(n, handSize) ==
    1 + (IF handSize = ChooseTrumpHandSize THEN 1 ELSE 0)
      + n + n * handSize + (handSize - 1)

RECURSIVE HandActionsOf(_, _, _)
\* the accepted actions of the hands h, h + 1, ... of a schedule
HandActionsOf(n, sched, h) ==
    IF h + 1 > Len(sched) THEN 0
    ELSE HandActions(n, HandSizeAt(sched, h)) + HandActionsOf(n, sched, h + 1)

\* the same, tabulated for the schedule of every seat count
HandActionsTable ==
    [n \in MinPlayers..MaxPlayers |->
        [h \in 0..(Len(buildSchedule(n)) + 1) |->
            HandActionsOf(n, buildSchedule(n), h)]]

HandActionsFrom(h) == HandActionsTable[numPlayers][h]

BidsRecorded == Cardinality({p \in Range(playerIds) : bids[p] # Null})

TricksToComplete == (CardsHeldFrom(1) + numPlayers - 1) \div numPlayers

ActionsLeft ==
    LET s    == currentHandSize
        held == CardsHeldFrom(1)
        rest == HandActionsFrom(handIndex + 1)
    IN  CASE phase = "waiting"      -> HandActionsFrom(0)
          [] phase = "choose_trump" -> HandActions(numPlayers, s) - 1 + rest
          [] phase = "bidding"      ->
                (numPlayers - BidsRecorded) + numPlayers * s + (s - 1) + rest
          [] phase = "playing"      -> held + (TricksToComplete - 1) + rest
          [] phase = "trick_pause"  -> held + TricksToComplete + rest
          [] phase = "hand_end"     -> rest
          [] OTHER                  -> 0

\* the step is an accepted call of the rules engine
AcceptedGameStep ==
    /\ last'.err = "none"
    /\ last'.op \in GameCalls \cup {"startHand"}
    /\ last' # last \/ gameVars' # gameVars

\* every accepted call uses up exactly one of the actions left
C22_Measure ==
    [][IF AcceptedGameStep THEN ActionsLeft' = ActionsLeft - 1
       ELSE ActionsLeft' = ActionsLeft]_vars

\* a hand is scored by the step that leaves playing for hand_end or game_end
C22_LastHandEnds ==
    [][(phase = "playing" /\ phase' \in {"hand_end", "game_end"}) =>
          /\ handIndex' = handIndex
          /\ phase' = "game_end" <=> handIndex = Len(schedule) - 1]_vars

\* the turn holder has an action the session accepts, or the pause or the
\* end of the hand can be advanced
CanAdvance ==
    CASE phase = "waiting" -> createBaseDeck(numPlayers).ok
      [] phase = "choose_trump" ->
            \E s \in SuitSet : ChooseTrumpError(getCurrentBidder, s) = "none"
      [] phase = "bidding" ->
            \E b \in 0..currentHandSize : PlaceBidError(getCurrentBidder, b) = "none"
      [] phase = "playing" ->
            \E c \in Range(hands[getCurrentPlayer]) :
                PlayCardError(getCurrentPlayer, cardToString(c)) = "none"
      [] phase = "trick_pause" -> ResumeAfterTrickError = "none"
      [] phase = "hand_end" -> NextHandError = "none"
      [] OTHER -> FALSE

C22_IndexInSchedule ==
    /\ schedule = buildSchedule(numPlayers)
    /\ Len(schedule) = 3 * numPlayers + 12
    /\ handIndex \in 0..(Len(schedule) - 1)
    /\ phase = "game_end" => handIndex = Len(schedule) - 1
    /\ ActionsLeft >= 0
    /\ ActionsLeft = 0 <=> phase = "game_end"
    /\ phase # "game_end" => CanAdvance

\* C22: a match whose turn holders keep submitting legal actions and whose
\* pauses and hand ends are advanced terminates: while the phase is not
\* game_end an accepted action exists, every accepted action uses up one of
\* a finite number of actions left, and none are left exactly at game_end;
\* the phase becomes game_end exactly when the hand at the last schedule
\* index (hand number 3n + 12) is scored and hand_end after every earlier
\* hand, and the hand index never passes the last schedule index.
C22_MatchTerminates ==
    /\ [](C22_IndexInSchedule)
    /\ C22_LastHandEnds
    /\ C22_Measure

C22_Witness ==
    /\ phase = "game_end"
    /\ handIndex = 3 * numPlayers + 11
    /\ last.op = "playCard"
    /\ ActionsLeft = 0

(***************************************************************************)
(* The Room of the server: roster, host, session, the two timers, the      *)
(* reconnection pause and the pending callbacks of the automated seats.    *)
(***************************************************************************)
\* events explored in a room after the fixed line of play
RoomSteps == 9
\* events explored in a room from the lobby
LobbySteps == 7
\* sessions started in one room
MaxStarts == 2
\* events explored in a room after its first hand, whose next-hand timer is
\* pending
StaleSteps == 7
\* events explored in a room whose roster is being put together
RosterSteps == 5

\* a Player of the roster; the reconnect token of a human seat is "t" + name
Human(id) == [id |-> id, name |-> id, isBot |-> FALSE, offline |-> FALSE, token |-> <<"t", id>>]
Bot(id) == [id |-> id, name |-> id, isBot |-> TRUE, offline |-> FALSE, token |-> <<>>]

\* room.players.map(p => p.id)
PlayerIds(r) == [i \in 1..Len(r.players) |-> r.players[i].id]

\* getPlayer
getPlayer(r, pid) ==
    IF \E i \in 1..Len(r.players) : r.players[i].id = pid
    THEN r.players[CHOOSE i \in 1..Len(r.players) :
                      r.players[i].id = pid /\ \A j \in 1..(i - 1) : r.players[j].id # pid]
    ELSE [id |-> "none", name |-> "none", isBot |-> FALSE, offline |-> TRUE, token |-> <<>>]

IsBotSeat(r, pid) == getPlayer(r, pid).id = pid /\ getPlayer(r, pid).isBot

\* a connection that holds a seat and is in socketToRoom
Online(r, s) ==
    \E i \in 1..Len(r.players) :
        r.players[i].id = s /\ ~r.players[i].isBot /\ ~r.players[i].offline

isHost(r, pid) == r.hostId = pid

\* room.pauseUntil && Date.now() < room.pauseUntil
Paused(r) == r.pause = "active"

\* the seat whose action the session waits for
TurnHolder ==
    CASE phase = "playing" -> getCurrentPlayer
      [] phase \in {"bidding", "choose_trump"} -> getCurrentBidder
      [] OTHER -> "none"

\* the moment a timeout is created at: the session, the hand and the number of
\* cards played in it
Stamp(r, h, cards) == [gen |-> r.gen, hand |-> h, cards |-> Cardinality(cards)]

\* scheduleResumeAfterTrick, for a session whose phase is ph: the handle
\* room.trickPauseTimer is set and a timeout is pending
scheduleResumeAfterTrick(r, ph, at) ==
    IF ~r.game \/ Paused(r) \/ ph # "trick_pause" \/ r.trickPauseTimer THEN r
    ELSE [r EXCEPT !.trickPauseTimer = TRUE,
                   !.timeouts = @ \cup {[kind |-> "resume", at |-> at]}]

\* a scheduleAutoNextHand that does not look at the handle
scheduleAutoNextHandAgain(r, ph, at) ==
    IF ~r.game \/ Paused(r) \/ ph # "hand_end" THEN r
    ELSE [r EXCEPT !.nextHandTimer = TRUE,
                   !.timeouts = @ \cup {[kind |-> "nextHand", at |-> at]}]

\* scheduleAutoNextHand, for a session whose phase is ph: the handle
\* room.nextHandTimer is set and a timeout is pending
scheduleAutoNextHand(r, ph, at) ==
    IF ~r.game \/ Paused(r) \/ ph # "hand_end" \/ r.nextHandTimer THEN r
    ELSE [r EXCEPT !.nextHandTimer = TRUE,
                   !.timeouts = @ \cup {[kind |-> "nextHand", at |-> at]}]

\* a maybeBotAct that starts a think-delay for whichever seat holds the turn
maybeBotActAnySeat(r, ph, holder) ==
    IF ~r.game \/ Paused(r) THEN r
    ELSE IF ph \in {"bidding", "playing", "choose_trump"}
    THEN [r EXCEPT !.botTimers = @ \cup {[kind |-> ph, pid |-> holder, gen |-> r.gen]}]
    ELSE r

\* maybeBotAct, for a session whose phase is ph and whose turn holder is
\* holder: the callback it sets keeps the session object (gen) and the seat
maybeBotAct(r, ph, holder) ==
    IF ~r.game \/ Paused(r) THEN r
    ELSE IF ph \in {"bidding", "playing", "choose_trump"} /\ IsBotSeat(r, holder)
    THEN [r EXCEPT !.botTimers = @ \cup {[kind |-> ph, pid |-> holder, gen |-> r.gen]}]
    ELSE r

\* the bid of the automated seat: its cards of rank J or higher, kept within
\* 0..handSize, moved off the dealer's forbidden value
BotBid(pid) ==
    LET hand == hands[pid]
        high == Cardinality({i \in 1..Len(hand) : hand[i].rank >= 11})
    IN  botBid(currentHandSize, high, pid = dealerId, sumBidsSoFar(pid))

\* the card of the automated seat: the first of the hand on lead, else the
\* first card of the lead suit, else the first of the hand
BotCard(pid) ==
    LET hand == hands[pid]
        sameSuit == SelectSeq(hand, LAMBDA c : c.suit = leadSuit)
    IN  IF Len(currentTrick) = 0 THEN hand[1]
        ELSE IF Len(sameSuit) > 0 THEN sameSuit[1] ELSE hand[1]

\* the trump of the automated seat: the most numerous suit of its hand, the
\* earlier of S, H, D, C on a tie
BotTrump(pid) ==
    LET hand == hands[pid]
        count(s) == Cardinality({i \in 1..Len(hand) : hand[i].suit = s})
        b1 == IF count("H") > count("S") THEN "H" ELSE "S"
        b2 == IF count("D") > count(b1) THEN "D" ELSE b1
    IN  IF count("C") > count(b2) THEN "C" ELSE b2

\* history: room.chain counts the accepted actions of automated seats since
\* the latest action of a connection or firing of a timeout that moved the
\* session
AfterTrigger(r) == [r EXCEPT !.chain = 0]
AfterBot(r) == [r EXCEPT !.chain = @ + 1]

\* an event that leaves the session alone: the room becomes r
RoomOnly(op, err, r) ==
    /\ Tick
    /\ last' = [op |-> op, trickEnded |-> FALSE, trickWinner |-> "none", err |-> err]
    /\ roomState' = r
    /\ UNCHANGED <<gameVars, rng, pure, played, mode>>

\* an event of the room that throws: the connection gets the error message
RoomRejected(op, err) ==
    /\ last' = [op |-> op, trickEnded |-> FALSE, trickWinner |-> "none", err |-> err]
    /\ UNCHANGED <<gameVars, rng, steps, pure, played, mode, roomState>>

\* game:bid; a call that throws is answered with the state and an error
\* message and changes nothing
GameBid(s, value) ==
    /\ Online(roomState, s)
    /\ roomState.game
    /\ ~Paused(roomState)
    /\ PlaceBidError(s, value) = "none"
    /\ PlaceBid(s, value)
    /\ roomState' = AfterTrigger(maybeBotAct(roomState, phase', TurnHolder'))

\* game:play
GamePlay(s, card) ==
    /\ Online(roomState, s)
    /\ roomState.game
    /\ ~Paused(roomState)
    /\ PlayCardError(s, card) = "none"
    /\ PlayCard(s, card)
    /\ roomState' =
          LET r1 == IF last'.trickEnded /\ phase' = "trick_pause"
                    THEN scheduleResumeAfterTrick(roomState, phase', Stamp(roomState, handIndex', played'))
                    ELSE roomState
              r2 == scheduleAutoNextHand(r1, phase', Stamp(roomState, handIndex', played'))
          IN  AfterTrigger(maybeBotAct(r2, phase', TurnHolder'))

\* game:chooseTrump
GameChooseTrump(s, suit) ==
    /\ Online(roomState, s)
    /\ roomState.game
    /\ ~Paused(roomState)
    /\ ChooseTrumpError(s, suit) = "none"
    /\ ChooseTrump(s, suit)
    /\ roomState' = AfterTrigger(maybeBotAct(roomState, phase', TurnHolder'))

\* game:nextHand
GameNextHand(s) ==
    /\ Online(roomState, s)
    /\ roomState.game
    /\ ~Paused(roomState)
    /\ isHost(roomState, s)
    /\ NextHandError = "none"
    /\ NextHand
    /\ roomState' = AfterTrigger(maybeBotAct(roomState, phase', TurnHolder'))

\* a callback of scheduleAutoNextHand that deals the next hand whatever the
\* phase is
NextHandTimerFireNoRecheck(t) ==
    /\ t \in roomState.timeouts
    /\ t.kind = "nextHand"
    /\ LET r1 == [roomState EXCEPT !.nextHandTimer = FALSE, !.timeouts = @ \ {t}]
       IN  IF ~roomState.game
           THEN RoomOnly("nextHandTimer", "none", r1)
           ELSE /\ handIndex < Len(schedule) - 1
                /\ handIndex' = handIndex + 1
                /\ dealerIndex' = (dealerIndex + 1) % numPlayers
                /\ DealHand(handIndex + 1, (dealerIndex + 1) % numPlayers)
                /\ Accepted("nextHand")
                /\ UNCHANGED <<playerIds, schedule, totalScores, streaks>>
                /\ roomState' = AfterTrigger(maybeBotAct(r1, phase', TurnHolder'))

\* the callback of scheduleAutoNextHand fires
NextHandTimerFire(t) ==
    /\ t \in roomState.timeouts
    /\ t.kind = "nextHand"
    /\ LET r1 == [roomState EXCEPT !.nextHandTimer = FALSE, !.timeouts = @ \ {t}]
       IN  IF ~roomState.game \/ phase # "hand_end"
           THEN RoomOnly("nextHandTimer", "none", r1)
           ELSE /\ NextHand
                /\ roomState' = AfterTrigger(maybeBotAct(r1, phase', TurnHolder'))

\* the callback of scheduleResumeAfterTrick fires
ResumeTimerFire(t) ==
    /\ t \in roomState.timeouts
    /\ t.kind = "resume"
    /\ LET r1 == [roomState EXCEPT !.trickPauseTimer = FALSE, !.timeouts = @ \ {t}]
       IN  IF ~roomState.game \/ phase # "trick_pause"
           THEN RoomOnly("trickPauseTimer", "none", r1)
           ELSE /\ ResumeAfterTrick
                /\ roomState' = AfterTrigger(maybeBotAct(r1, phase', TurnHolder'))

\* a think-delay of maybeBotAct ends: the callback acts on the session object
\* it kept.  A callback that kept a session the room has replaced acts on that
\* discarded object, whose state is not followed: its call throws (nothing
\* more happens) or is accepted (maybeBotAct runs on the room).
BotFire(t) ==
    /\ t \in roomState.botTimers
    /\ LET r1 == [roomState EXCEPT !.botTimers = @ \ {t}]
           pid == t.pid
       IN  IF t.gen # roomState.gen
           THEN \/ RoomOnly("bot", "none", r1)
                \/ RoomOnly("bot", "none", maybeBotAct(r1, phase, TurnHolder))
           ELSE IF t.kind = "bidding"
           THEN IF PlaceBidError(pid, BotBid(pid)) # "none"
                THEN RoomOnly("bot", PlaceBidError(pid, BotBid(pid)), r1)
                ELSE /\ PlaceBid(pid, BotBid(pid))
                     /\ roomState' = AfterBot(maybeBotAct(r1, phase', TurnHolder'))
           ELSE IF t.kind = "playing"
           THEN IF Len(hands[pid]) = 0 THEN RoomOnly("bot", "none", r1)
                ELSE IF PlayCardError(pid, cardToString(BotCard(pid))) # "none"
                THEN RoomOnly("bot", PlayCardError(pid, cardToString(BotCard(pid))), r1)
                ELSE /\ PlayCard(pid, cardToString(BotCard(pid)))
                     /\ roomState' = AfterBot(maybeBotAct(r1, phase', TurnHolder'))
           ELSE IF ChooseTrumpError(pid, BotTrump(pid)) # "none"
                THEN RoomOnly("bot", ChooseTrumpError(pid, BotTrump(pid)), r1)
                ELSE /\ ChooseTrump(pid, BotTrump(pid))
                     /\ roomState' = AfterBot(maybeBotAct(r1, phase', TurnHolder'))

\* the roster with the seat at index i changed to p
WithPlayer(r, i, p) == [r EXCEPT !.players = [@ EXCEPT ![i] = p]]

SeatIndex(r, pid) == IndexOf(PlayerIds(r), pid) + 1

OnlineHumans(r) ==
    SelectSeq(r.players, LAMBDA p : ~p.isBot /\ ~p.offline)

\* the pause of disconnect and room:leave: a minute from now, for a match
\* that is not over
PauseFor(r) ==
    IF r.game /\ phase # "game_end" THEN [r EXCEPT !.pause = "active"] ELSE r

\* disconnect
Disconnect(s) ==
    /\ Online(roomState, s)
    /\ LET i  == SeatIndex(roomState, s)
           r1 == WithPlayer(roomState, i, [roomState.players[i] EXCEPT !.offline = TRUE])
           on == OnlineHumans(r1)
           r2 == IF r1.hostId = s /\ Len(on) > 0 THEN [r1 EXCEPT !.hostId = on[1].id] ELSE r1
       IN  RoomOnly("disconnect", "none", PauseFor(r2))

\* room:leave
Leave(s) ==
    /\ Online(roomState, s)
    /\ LET i    == SeatIndex(roomState, s)
           stay == roomState.game /\ phase # "game_end"
           r1   == IF stay
                   THEN WithPlayer(roomState, i, [roomState.players[i] EXCEPT !.offline = TRUE])
                   ELSE [roomState EXCEPT !.players = SelectSeq(@, LAMBDA p : p.id # s)]
           on   == OnlineHumans(r1)
           r2   == IF r1.hostId = s /\ Len(r1.players) > 0
                   THEN [r1 EXCEPT !.hostId = IF Len(on) > 0 THEN on[1].id
                                              ELSE r1.players[1].id]
                   ELSE r1
       IN  RoomOnly("room:leave", "none", PauseFor(r2))

\* clearPauseIfAllOnline
clearPauseIfAllOnline(r) ==
    IF \E i \in 1..Len(r.players) : ~r.players[i].isBot /\ r.players[i].offline
    THEN r
    ELSE [r EXCEPT !.pause = "none"]

\* the seat room:join finds by the token, 0 when none
ExistingByToken(r, tok) ==
    IF tok # <<>> /\ \E i \in 1..Len(r.players) :
                        ~r.players[i].isBot /\ r.players[i].token = tok
    THEN CHOOSE i \in 1..Len(r.players) :
            /\ ~r.players[i].isBot /\ r.players[i].token = tok
            /\ \A j \in 1..(i - 1) : r.players[j].isBot \/ r.players[j].token # tok
    ELSE 0

\* the offline seat room:join finds by the name, 0 when none
ExistingByName(r, pname) ==
    IF \E i \in 1..Len(r.players) :
          ~r.players[i].isBot /\ r.players[i].offline /\ r.players[i].name = pname
    THEN CHOOSE i \in 1..Len(r.players) :
            /\ ~r.players[i].isBot /\ r.players[i].offline /\ r.players[i].name = pname
            /\ \A j \in 1..(i - 1) :
                  r.players[j].isBot \/ ~r.players[j].offline \/ r.players[j].name # pname
    ELSE 0

\* what room:join throws, in a room without a password
JoinError(r, pname, tok) ==
    IF r.game /\ ExistingByToken(r, tok) = 0 THEN "Game already started in this room"
    ELSE "none"

\* the Player room:join adds for the connection s: token() is a new token
NewHuman(r, s, pname) ==
    [id |-> s, name |-> pname, isBot |-> FALSE, offline |-> FALSE,
     token |-> <<"t", s, pname, Len(r.players)>>]

\* room:join from the connection s, seated or not, with a name and a token
\* (<<>>: none): the seat found by the token, else the offline seat of that
\* name, is handed to s; with neither, s gets a new seat
Join(s, pname, tok) ==
    LET byToken == ExistingByToken(roomState, tok)
        e == IF byToken # 0 THEN byToken ELSE ExistingByName(roomState, pname)
        err == JoinError(roomState, pname, tok)
    IN  IF err # "none" THEN RoomRejected("room:join", err)
        ELSE IF e # 0
        THEN LET oldId == roomState.players[e].id
                 r1 == WithPlayer(roomState, e,
                          [roomState.players[e] EXCEPT !.id = s, !.offline = FALSE])
                 r2 == IF r1.hostId = oldId THEN [r1 EXCEPT !.hostId = s] ELSE r1
                 r3 == clearPauseIfAllOnline(r2)
             IN  IF roomState.game /\ oldId # s /\ oldId \in Range(playerIds)
                 THEN ReplacePlayerId(oldId, s) /\ roomState' = r3
                 ELSE RoomOnly("room:join", "none", r3)
        ELSE IF Len(roomState.players) >= MaxPlayers
        THEN RoomRejected("room:join", "Room is full (max 6)")
        ELSE RoomOnly("room:join", "none",
                      clearPauseIfAllOnline(
                          [roomState EXCEPT !.players = Append(@, NewHuman(roomState, s, pname))]))

\* the id room:addBot makes up: "bot-" and six random characters, taken here
\* as the first of BotIds no seat has
BotIds == <<"p", "q", "r", "u", "v", "w">>
NewBotId(r) ==
    BotIds[CHOOSE i \in 1..Len(BotIds) :
              /\ BotIds[i] \notin Range(PlayerIds(r))
              /\ \A j \in 1..(i - 1) : BotIds[j] \in Range(PlayerIds(r))]

AddBotError(r, s) ==
    IF ~isHost(r, s) THEN "Only host can add bots"
    ELSE IF r.game THEN "Cannot add bots after game starts"
    ELSE IF Len(r.players) >= MaxPlayers THEN "Room is full (max 6)"
    ELSE "none"

\* room:addBot
AddBot(s) ==
    /\ Online(roomState, s)
    /\ IF AddBotError(roomState, s) # "none"
       THEN RoomRejected("room:addBot", AddBotError(roomState, s))
       ELSE RoomOnly("room:addBot", "none",
                     [roomState EXCEPT !.players = Append(@, Bot(NewBotId(roomState)))])

\* the minute of the pause runs out
PauseExpire ==
    /\ roomState.pause = "active"
    /\ RoomOnly("pauseExpired", "none", [roomState EXCEPT !.pause = "expired"])

\* game:start: startGame makes a new session for the roster, deals its first
\* hand and runs maybeBotAct
GameStart(s) ==
    LET ids == PlayerIds(roomState)
    IN  /\ Online(roomState, s)
        /\ ~Paused(roomState)
        /\ isHost(roomState, s)
        /\ Len(ids) >= MinPlayers
        /\ Len(ids) <= MaxPlayers
        /\ roomState.gen < MaxStarts
        /\ playerIds' = ids
        /\ dealerIndex' = 0
        /\ schedule' = buildSchedule(Len(ids))
        /\ handIndex' = 0
        /\ totalScores' = [p \in Range(ids) |-> 0]
        /\ streaks' = [p \in Range(ids) |-> [type |-> "none", count |-> 0]]
        /\ DealFor(ids, buildSchedule(Len(ids)), 0, 0)
        /\ Accepted("game:start")
        /\ roomState' = AfterTrigger(maybeBotAct([roomState EXCEPT !.game = TRUE,
                                                                   !.gen = @ + 1],
                                                 phase', TurnHolder'))

(***************************************************************************)
(* RoomSpec: a room of three seats whose first seat is the host and    *)
(* whose other seats are human or automated.  The room is explored from    *)
(* the lobby, and from the end of the 2-card hand that follows the first   *)
(* run of 1-card hands, which it reaches along the fixed line of play: every *)
(* event that is due is delivered, human seats bid and play as in          *)
(* MatchSpec, the host continues a hand that no timer continues.           *)
(***************************************************************************)
\* the hand index the fixed line of play of a room runs to: the 2-card hand
\* of an n-seat schedule, whose first trick the host (the dealer) completes
RoomEve(n) == n

Rosters ==
    {<<Human("a"), p2, p3>> : p2 \in {Human("b"), Bot("b")}, p3 \in {Human("c"), Bot("c")}}

NewRoom(players) ==
    [players |-> players, hostId |-> players[1].id, game |-> FALSE, gen |-> 0,
     nextHandTimer |-> FALSE, trickPauseTimer |-> FALSE, pause |-> "none",
     botTimers |-> {}, timeouts |-> {}, chain |-> 0]

RoomInit ==
    /\ \E players \in Rosters :
          /\ roomState = NewRoom(players)
          /\ Construct([i \in 1..Len(players) |-> players[i].id])
    /\ mode \in {[script |-> Null, trace |-> FALSE, rejoin |-> TRUE, budget |-> LobbySteps],
                 [script |-> RoomEve(MinPlayers), trace |-> FALSE, rejoin |-> FALSE,
                  budget |-> RoomSteps],
                 [script |-> 0, trace |-> FALSE, rejoin |-> TRUE, budget |-> StaleSteps]}
    \* the shuffles vary in the scripted line of play; the other lines take the first
    /\ rng \in (IF mode.rejoin THEN {1} ELSE 1..MaxSeeds)
    /\ last = NoCall
    /\ steps = 0
    /\ pure = Idle
    /\ played = {}

\* the one event of the fixed line of play that is due
RoomScriptStep ==
    LET idle == roomState.botTimers = {}
        human == ~IsBotSeat(roomState, TurnHolder)
    IN  \/ ~roomState.game /\ GameStart(roomState.hostId)
        \/ roomState.game /\ \E t \in roomState.botTimers : BotFire(t)
        \/ roomState.game /\ idle /\ \E t \in roomState.timeouts : NextHandTimerFire(t)
        \/ roomState.game /\ idle /\ \E t \in roomState.timeouts : ResumeTimerFire(t)
        \/ /\ roomState.game /\ idle /\ ~roomState.nextHandTimer /\ phase = "hand_end"
           /\ GameNextHand(roomState.hostId)
        \/ /\ roomState.game /\ idle /\ human /\ phase = "bidding"
           /\ GameBid(TurnHolder, ScriptBid)
        \/ /\ roomState.game /\ idle /\ human /\ phase = "playing"
           /\ GamePlay(TurnHolder, cardToString(ScriptCard))

\* the next connection that is not seated yet
FreshSockets ==
    IF \E i \in 1..Len(FreshIds) : FreshIds[i] \notin Range(PlayerIds(roomState))
    THEN {FreshIds[CHOOSE i \in 1..Len(FreshIds) :
                      /\ FreshIds[i] \notin Range(PlayerIds(roomState))
                      /\ \A j \in 1..(i - 1) : FreshIds[j] \in Range(PlayerIds(roomState))]}
    ELSE {}

OfflineSeats ==
    {i \in 1..Len(roomState.players) :
        ~roomState.players[i].isBot /\ roomState.players[i].offline}

\* the names and tokens a joining connection gives: those of the seats that
\* are offline, a name nobody has, no token
JoinNames == {roomState.players[i].name : i \in OfflineSeats} \cup {"z"}
JoinTokens == {<<>>} \cup {roomState.players[i].token : i \in OfflineSeats}

RoomCards(s) == IF s \in DOMAIN hands THEN {cardToString(c) : c \in Range(hands[s])} ELSE {}

RoomNext ==
    \/ Scripted /\ RoomScriptStep
    \/ ~Scripted /\ \E s \in Range(PlayerIds(roomState)) : GameStart(s)
    \/ ~Scripted /\ \E s \in Range(PlayerIds(roomState)), v \in 0..currentHandSize :
                        GameBid(s, v)
    \/ ~Scripted /\ \E s \in Range(PlayerIds(roomState)) :
                        \E c \in RoomCards(s) : GamePlay(s, c)
    \/ ~Scripted /\ \E s \in Range(PlayerIds(roomState)) : GameNextHand(s)
    \/ ~Scripted /\ \E t \in roomState.timeouts : NextHandTimerFire(t)
    \/ ~Scripted /\ \E t \in roomState.timeouts : ResumeTimerFire(t)
    \/ ~Scripted /\ \E t \in roomState.botTimers : BotFire(t)
    \/ ~Scripted /\ mode.rejoin /\ OfflineSeats = {} /\
          \E s \in Range(PlayerIds(roomState)) : Disconnect(s)
    \/ ~Scripted /\ mode.rejoin /\ OfflineSeats = {} /\
          \E s \in Range(PlayerIds(roomState)) : Leave(s)
    \/ ~Scripted /\ mode.rejoin /\ \E s \in FreshSockets, pname \in JoinNames, tok \in JoinTokens :
                        /\ roomState.game \/ pname # "z" \/ tok # <<>>
                        /\ Join(s, pname, tok)
    \/ ~Scripted /\ mode.rejoin /\ PauseExpire

RoomSpec == RoomInit /\ [][RoomNext]_vars

(***************************************************************************)
(* C23 - C27: the room's timers, automated seats, rejoin and start.        *)
(***************************************************************************)
\* the seat that played the latest card of the current trick
LastCardSeat == currentTrick[Len(currentTrick)].pid

\* C23: whenever the session is in trick_pause and no reconnection pause is
\* active, the delayed auto-resume is pending (so the session returns to
\* playing with no further inbound action), whichever seat, human or
\* automated, played the card that completed the trick.
C23_ResumePending ==
    (roomState.game /\ phase = "trick_pause" /\ ~Paused(roomState))
        => roomState.trickPauseTimer

\* a trick completed by an automated seat, with no pause around
C23_Witness ==
    /\ roomState.game /\ phase = "trick_pause" /\ roomState.pause = "none"
    /\ IsBotSeat(roomState, LastCardSeat)
    /\ last.op = "playCard"

\* C24: whenever the session is in hand_end and no reconnection pause is
\* active, the delayed auto-advance is pending (so the next hand is dealt even
\* if no host or other human action arrives), whichever seat, human or
\* automated, played the last card of the hand.
C24_NextHandPending ==
    (roomState.game /\ phase = "hand_end" /\ ~Paused(roomState))
        => roomState.nextHandTimer

\* a hand ended by the card of an automated seat, with no pause around
C24_Witness ==
    /\ roomState.game /\ phase = "hand_end" /\ roomState.pause = "none"
    /\ IsBotSeat(roomState, LastCardSeat)
    /\ last.op = "playCard"

\* the call the callback t of an automated seat will make is accepted
BotCallAccepted(t) ==
    CASE t.kind = "bidding" -> PlaceBidError(t.pid, BotBid(t.pid)) = "none"
      [] t.kind = "playing" ->
            /\ Len(hands[t.pid]) > 0
            /\ PlayCardError(t.pid, cardToString(BotCard(t.pid))) = "none"
      [] OTHER -> ChooseTrumpError(t.pid, BotTrump(t.pid)) = "none"

\* C25: whenever the session is in bidding, choose_trump or playing, the turn
\* holder is an automated seat and no reconnection pause is active, a callback
\* of that seat is pending whose action the session accepts (so the turn
\* leaves the automated seat without any human action).
C25_BotActs ==
    (/\ roomState.game
     /\ phase \in {"bidding", "choose_trump", "playing"}
     /\ IsBotSeat(roomState, TurnHolder)
     /\ ~Paused(roomState))
        => \E t \in roomState.botTimers :
              /\ t.pid = TurnHolder /\ t.kind = phase /\ t.gen = roomState.gen
              /\ BotCallAccepted(t)

\* the turn is with an automated seat whose callback has run and was refused
C25_Witness ==
    /\ roomState.game /\ phase = "playing" /\ roomState.pause = "none"
    /\ IsBotSeat(roomState, TurnHolder)
    /\ roomState.botTimers = {}
    /\ last.op = "bot" /\ last.err # "none"

\* C26: during an active match, a join that gives the name of a seat marked
\* offline and no reconnection token is accepted.
C26_NameRejoinAccepted ==
    roomState.game =>
        \A i \in OfflineSeats : JoinError(roomState, roomState.players[i].name, <<>>) = "none"

\* a seat is offline during a match and a join was refused
C26_Witness ==
    /\ roomState.game /\ OfflineSeats # {}
    /\ last.op = "room:join" /\ last.err = "Game already started in this room"

\* C27: the session of a room is replaced by a new one only when the existing
\* one has reached game_end.
C27_ReplacedAtGameEnd ==
    [][(roomState.game /\ roomState'.gen # roomState.gen) => phase = "game_end"]_vars

\* a second session, dealt while the first was not over
C27_Witness ==
    /\ roomState.gen = 2 /\ last.op = "game:start" /\ handIndex = 0
    /\ phase = "bidding"

(***************************************************************************)
(* Bidding order (game.ts:239-284).                                        *)
(***************************************************************************)
\* the seat j places after the dealer, j = 1 for the seat left of the dealer
SeatAfterDealer(j) == playerIds[((dealerIndex + j) % numPlayers) + 1]

\* while bids are open the recorded bids are those of the first k seats after
\* the dealer and the bid turn is with the next one
BidTurnInOrder ==
    phase \in {"bidding", "choose_trump"} =>
        /\ BidsRecorded < numPlayers
        /\ bidTurnIndex = (dealerIndex + 1 + BidsRecorded) % numPlayers
        /\ \A j \in 1..numPlayers : (bids[SeatAfterDealer(j)] # Null) <=> (j <= BidsRecorded)
        /\ (phase = "choose_trump" => BidsRecorded = 0)

\* a deal: the step of startHand or nextHand
DealStep == phase \in {"waiting", "hand_end"} /\ phase' \notin {"waiting", "hand_end"}

\* an accepted placeBid
BidStep == phase = "bidding" /\ playerIds' = playerIds /\ bids' # bids

BidStepInOrder ==
    LET p == getCurrentBidder
    IN  /\ bids[p] = Null
        /\ bids'[p] \in 0..currentHandSize
        /\ \A q \in Range(playerIds) \ {p} : bids'[q] = bids[q]
        /\ bidTurnIndex' = (bidTurnIndex + 1) % numPlayers
        /\ (p = dealerId) <=> (\A q \in Range(playerIds) : bids'[q] # Null)
        /\ (phase' = "playing") <=> (p = dealerId)
        /\ IF p = dealerId
           THEN /\ playTurnIndex' = (dealerIndex + 1) % numPlayers
                /\ playerIds[playTurnIndex' + 1] = SeatAfterDealer(1)
                /\ currentTrick' = <<>>
                /\ leadSuit' = "none"
           ELSE /\ phase' = "bidding"
                /\ UNCHANGED <<playTurnIndex, currentTrick, leadSuit>>

\* C28: in each hand the bid turn starts at the seat right after the dealer and
\* moves on by one seat with every accepted bid, so the seats bid in seat order
\* and the dealer bids last; the phase becomes playing exactly in the step that
\* records the last seat's bid, and in that step the play turn goes to the seat
\* right after the dealer and the current trick and the lead suit are empty.
C28_BidOrder ==
    /\ [](BidTurnInOrder)
    /\ [][DealStep => (/\ bidTurnIndex' = (dealerIndex' + 1) % numPlayers
                       /\ \A q \in Range(playerIds) : bids'[q] = Null
                       /\ playTurnIndex' = Null)]_vars
    /\ [][BidStep => BidStepInOrder]_vars
    /\ [][(phase = "bidding" /\ phase' # "bidding") => (BidStep /\ phase' = "playing")]_vars

\* the dealer of a later hand, not seated first or last, has bid last and the
\* seat after it holds the lead
C28_Witness ==
    /\ phase = "playing"
    /\ last.op = "placeBid"
    /\ handIndex >= 1
    /\ dealerIndex = 1
    /\ playTurnIndex = 2
    /\ currentTrick = <<>>
    /\ leadSuit = "none"
    /\ \A q \in Range(playerIds) : bids[q] # Null

(***************************************************************************)
(* The pause between two tricks (game.ts:362-366, 417-425).                *)
(***************************************************************************)
\* the step of resumeAfterTrick
ResumeStep == phase = "trick_pause" /\ phase' = "playing"

\* the winner of the trick that lies on the table
TableWinner == resolveTrick(currentTrick, leadSuit, trumpSuit)

\* play is open for the first card of a trick that is not the first of its hand
LaterLeadOpen == phase = "playing" /\ currentTrick = <<>> /\ played # {}

NoStreak == [type |-> "none", count |-> 0]

StreakInRange(st) ==
    /\ st.type \in {"none", "+", "-"}
    /\ st.count \in 0..(StreakLimit - 1)
    /\ (st.count = 0) <=> (st.type = "none")

\* the streak a seat has after a hand, by the rule of the game
StreakAfter(st, success) ==
    LET outcome == IF success THEN "+" ELSE "-"
    IN  IF st.type # outcome THEN [type |-> outcome, count |-> 1]
        ELSE IF st.count + 1 = StreakLimit THEN NoStreak
        ELSE [type |-> outcome, count |-> st.count + 1]

\* the step of playCard that scores a hand
ScoringStep == phase = "playing" /\ phase' \in {"hand_end", "game_end"}

\* C30: at all times, so between hands too, every seat's streak has a count in
\* 0..4 which is 0 exactly when the type is none; scoring a hand sets the
\* streak to {outcome, 1} when the outcome differs from the streak's type,
\* adds 1 to the count when it matches, and puts {none, 0} in that same step
\* when the count would reach 5; no other step changes a seat's streak, neither
\* the deal of the next hand nor the rotation of the dealer.
C30_StreakBetweenHands ==
    /\ [](\A p \in Range(playerIds) : StreakInRange(streaks[p]))
    /\ [](pure.fn = "scoreSeat" =>
             \A i \in 1..Len(pure.hist) :
                 /\ StreakInRange(pure.hist[i].before)
                 /\ pure.hist[i].after = StreakAfter(pure.hist[i].before, pure.hist[i].success))
    /\ [][ScoringStep =>
             \A p \in Range(playerIds) :
                 streaks'[p] = StreakAfter(streaks[p], bids[p] = tricksWon'[p])]_vars
    /\ [][~ScoringStep =>
             \A i \in 1..numPlayers : streaks'[playerIds'[i]] = streaks[playerIds[i]]]_vars

\* a hand has just been scored: one seat's fifth failure in a row has put its
\* streak back to {none, 0}, another seat's streak stands at a count of 2 or more
C30_Witness ==
    /\ phase = "hand_end"
    /\ last.op = "playCard"
    /\ handIndex >= StreakLimit - 1
    /\ \E p, q \in Range(playerIds) :
          /\ streaks[p] = NoStreak
          /\ bids[p] # tricksWon[p]
          /\ streaks[q].count >= 2

(***************************************************************************)
(* The cards on the table (game.ts:333-369, 417-425).                      *)
(***************************************************************************)
\* C31: the current trick never holds two cards of one seat nor more cards
\* than there are seats; it holds fewer cards than seats while the phase is
\* playing and exactly one card per seat (the trick just completed) in
\* trick_pause, hand_end and game_end; the lead suit is the suit of the first
\* card on the table whenever there is one.
C31_TrickSize ==
    /\ Len(currentTrick) <= numPlayers
    /\ \A i \in 1..Len(currentTrick) : currentTrick[i].pid \in Range(playerIds)
    /\ \A i, j \in 1..Len(currentTrick) : i # j => currentTrick[i].pid # currentTrick[j].pid
    /\ (phase = "playing" => Len(currentTrick) < numPlayers)
    /\ (phase \in {"trick_pause", "hand_end", "game_end"} =>
            /\ Len(currentTrick) = numPlayers
            /\ {currentTrick[i].pid : i \in 1..Len(currentTrick)} = Range(playerIds))
    /\ (Len(currentTrick) > 0 => leadSuit = currentTrick[1].card.suit)

\* the trick that ended the match lies complete on the table, led in a suit
\* that not every card of it follows
C31_Witness ==
    /\ phase = "game_end"
    /\ Len(currentTrick) = numPlayers
    /\ leadSuit = currentTrick[1].card.suit
    /\ \E i \in 2..Len(currentTrick) : currentTrick[i].card.suit # leadSuit

(***************************************************************************)
(* C32 - C34: the two timers of a room (server.ts:116-147).                *)
(***************************************************************************)
\* the timeouts of one kind that have not fired yet
Pending(kind) == {t \in roomState.timeouts : t.kind = kind}

\* the moment the session is at
Now == Stamp(roomState, handIndex, played)

\* C32: a room never has more than one next-hand timeout nor more than one
\* trick-resume timeout pending, and the handle of each kind is set exactly
\* while its timeout is pending; a step creates a timeout only when none of
\* its kind is pending and the session has just entered the phase the
\* timeout is for (hand_end, trick_pause), so a request made while one is
\* pending or in another phase creates none.
C32_OneTimerEach ==
    /\ [](/\ Cardinality(Pending("nextHand")) <= 1
          /\ Cardinality(Pending("resume")) <= 1
          /\ roomState.nextHandTimer <=> (Pending("nextHand") # {})
          /\ roomState.trickPauseTimer <=> (Pending("resume") # {}))
    /\ [][\A t \in roomState'.timeouts \ roomState.timeouts :
             /\ {u \in roomState.timeouts : u.kind = t.kind} = {}
             /\ phase' = (IF t.kind = "nextHand" THEN "hand_end" ELSE "trick_pause")
             /\ phase = "playing"
             /\ t.at = Now']_vars

\* a human seat has played the last card of a hand while the next-hand
\* timeout of the hand before was still pending: the request of game:play
\* has created no second one
C32_Witness ==
    /\ roomState.game
    /\ phase = "hand_end"
    /\ last.op = "playCard"
    /\ ~IsBotSeat(roomState, LastCardSeat)
    /\ roomState.pause = "none"
    /\ \E t \in Pending("nextHand") : t.at.hand < handIndex
    /\ Cardinality(Pending("nextHand")) = 1

\* a timeout of the kind fires: it is pending before the step and gone after
Fires(kind) == \E t \in roomState.timeouts \ roomState'.timeouts : t.kind = kind

\* C33: a next-hand timeout that fires when the room has no session or the
\* session is not in hand_end, and a trick-resume timeout that fires when the
\* room has no session or the session is not in trick_pause, leave every
\* field of the session as it was, whatever the host and the seats did
\* between the scheduling and the firing.
C33_StaleTimerNoOp ==
    /\ [][(Fires("nextHand") /\ (~roomState.game \/ phase # "hand_end"))
            => UNCHANGED <<gameVars, played>>]_vars
    /\ [][(Fires("resume") /\ (~roomState.game \/ phase # "trick_pause"))
            => UNCHANGED <<gameVars, played>>]_vars

\* the host has continued to the next hand by hand; the next-hand timeout of
\* the hand before has then fired during the bidding and has done nothing
C33_Witness ==
    /\ roomState.game
    /\ last.op = "nextHandTimer"
    /\ phase = "bidding"
    /\ handIndex >= 1
    /\ Pending("nextHand") = {}
    /\ ~roomState.nextHandTimer

\* C34: while a reconnection pause is active no timeout of the room moves the
\* session: no step taken under an active pause goes from hand_end to the
\* next hand or from trick_pause to playing, whenever the timeout that fires
\* was created.
C34_TimersHeldByPause ==
    [][Paused(roomState) =>
          /\ ~(phase = "hand_end" /\ handIndex' # handIndex)
          /\ ~(phase = "hand_end" /\ phase' # "hand_end")
          /\ ~(phase = "trick_pause" /\ phase' # "trick_pause")]_vars

\* a seat is offline and the pause is active; the next-hand timeout created
\* before the pause has fired and has dealt the next hand
C34_Witness ==
    /\ roomState.game
    /\ roomState.pause = "active"
    /\ OfflineSeats # {}
    /\ last.op = "nextHand"
    /\ phase = "bidding"
    /\ handIndex >= 1

(***************************************************************************)
(* C35 - C38: the automated seats (server.ts:202-285).                     *)
(***************************************************************************)
\* the automated seats of the room that are seated in the session
BotSeats == {p \in Range(playerIds) : IsBotSeat(roomState, p)}

\* C35: whenever an automated seat holds the play turn, the card its policy
\* picks from its hand is one playCard accepts: it follows the lead suit if
\* the seat can, is a trump if the seat cannot follow but holds a trump, and
\* is any card otherwise.
C35_BotCardLegal ==
    (roomState.game /\ phase = "playing" /\ TurnHolder \in BotSeats
        /\ Len(hands[TurnHolder]) > 0)
        => /\ LegalPlay(TurnHolder, BotCard(TurnHolder))
           /\ PlayCardError(TurnHolder, cardToString(BotCard(TurnHolder))) = "none"

\* the callback of an automated seat has played the first card of its hand,
\* which is neither of the lead suit (it holds none) nor a trump (it holds
\* one): playCard has thrown
C35_Witness ==
    /\ roomState.game
    /\ phase = "playing"
    /\ TurnHolder \in BotSeats
    /\ last.op = "bot"
    /\ last.err = "You must play trump if you do not have the lead suit"
    /\ ~\E i \in 1..Len(hands[TurnHolder]) : hands[TurnHolder][i].suit = leadSuit
    /\ \E i \in 1..Len(hands[TurnHolder]) : hands[TurnHolder][i].suit = trumpSuit

\* C36: the bid the policy of the automated seats computes is always one
\* placeBid accepts: for every hand size 1..8, every number of high cards
\* the hand can hold and every sum of the other seats' bids it is an integer
\* in 0..handSize and, for the dealer, it is not handSize minus that sum; and
\* whenever an automated seat holds the bid turn of a session, placeBid
\* accepts its bid.
C36_BotBidAccepted ==
    /\ pure.fn = "botBid" =>
          /\ pure.out \in 0..pure.handSize
          /\ (pure.isDealer => pure.out # pure.handSize - pure.sumOthers)
          /\ (pure.out # pure.high => pure.isDealer /\ pure.high = pure.handSize - pure.sumOthers)
    /\ (roomState.game /\ phase = "bidding" /\ IsBotSeat(roomState, TurnHolder)) =>
          PlaceBidError(TurnHolder, BotBid(TurnHolder)) = "none"

\* the dealer's hand is all high cards and nobody has bid a trick: the count
\* is the forbidden value, and the policy bids one less
C36_Witness ==
    /\ pure.fn = "botBid"
    /\ pure.isDealer
    /\ pure.handSize = 8
    /\ pure.high = 8
    /\ pure.sumOthers = 0
    /\ pure.out = 7

\* C37: the automated seats never take more than seatCount actions in a row:
\* after an action of a connection or the firing of a timeout, at most that
\* many callbacks of automated seats act on the session before the turn is
\* with a human seat or the session is in trick_pause, hand_end or game_end,
\* where no callback is pending and the chain has ended.
C37_BotChainBounded ==
    roomState.game =>
        /\ roomState.chain <= numPlayers
        /\ \A t \in roomState.botTimers :
              (t.gen = roomState.gen /\ t.pid = TurnHolder) => roomState.chain < numPlayers
        /\ (phase \in {"trick_pause", "hand_end", "game_end"} \/ ~IsBotSeat(roomState, TurnHolder))
              => ~\E t \in roomState.botTimers : t.gen = roomState.gen /\ t.pid = TurnHolder

\* the human seat is the dealer and has bid last; both automated seats have
\* then played, and the turn is back with the human seat
C37_Witness ==
    /\ roomState.game
    /\ roomState.chain = numPlayers - 1
    /\ phase = "playing"
    /\ last.op = "playCard"
    /\ ~IsBotSeat(roomState, TurnHolder)
    /\ roomState.botTimers = {}
    /\ Len(currentTrick) = numPlayers - 1

\* a think-delay ends in the step: a callback of an automated seat runs
BotCallbackRuns == roomState.botTimers \ roomState'.botTimers # {}

\* C38: a callback of an automated seat that runs while a reconnection pause
\* is active leaves the session as it was, also when its think-delay began
\* before the pause did.
C38_BotHeldByPause ==
    [][(Paused(roomState) /\ BotCallbackRuns) => UNCHANGED <<gameVars, played>>]_vars

\* a seat is offline and the pause is active; the callback of an automated
\* seat, created before the pause, has placed its bid
C38_Witness ==
    /\ roomState.game
    /\ roomState.pause = "active"
    /\ OfflineSeats # {}
    /\ last.op = "placeBid"
    /\ \E p \in BotSeats : bids[p] # Null
    /\ roomState.chain >= 1

(***************************************************************************)
(* RosterSpec: a room from its creation on, under the events that change   *)
(* its roster: room:join from seated and from new connections, with the    *)
(* name of the connection or of an offline seat and with no token or the   *)
(* token of a seat, room:addBot, room:leave, disconnect, and game:start.    *)
(***************************************************************************)
\* the connections that hold a seat and are in the room
SeatedConns == {s \in Range(PlayerIds(roomState)) : Online(roomState, s)}

RosterNames(s) == {s} \cup {roomState.players[i].name : i \in OfflineSeats}

RosterTokens ==
    {<<>>} \cup {roomState.players[i].token :
                    i \in {k \in 1..Len(roomState.players) : ~roomState.players[k].isBot}}

\* room:create by the connection "a"
RosterInit ==
    /\ roomState = NewRoom(<<Human("a")>>)
    /\ Construct(<<"a">>)
    /\ mode = [script |-> Null, trace |-> FALSE, rejoin |-> TRUE, budget |-> RosterSteps]
    /\ rng = 1
    /\ last = NoCall
    /\ steps = 0
    /\ pure = Idle
    /\ played = {}

RosterNext ==
    \/ /\ Len(roomState.players) > 0
       /\ \E s \in SeatedConns \cup FreshSockets :
             \E pname \in RosterNames(s), tok \in RosterTokens : Join(s, pname, tok)
    \/ \E s \in SeatedConns : AddBot(s)
    \/ \E s \in SeatedConns : Leave(s)
    \/ \E s \in SeatedConns : Disconnect(s)
    \/ \E s \in SeatedConns : GameStart(s)

RosterSpec == RosterInit /\ [][RosterNext]_vars

\* no two entries of the sequence are equal
Distinct(seq) == \A i, j \in 1..Len(seq) : i # j => seq[i] # seq[j]

\* C39: after any sequence of room:create, room:join (with or without a
\* token, from a new or from a seated connection), room:addBot, room:leave and
\* disconnect, no two seats of the roster have the same id, no two seats of
\* the session have the same id, and every seat of the session has a hand, a
\* bid, a tricks-won, a score and a streak entry of its own.
C39_SeatsDistinct ==
    /\ Distinct(PlayerIds(roomState))
    /\ roomState.game =>
          /\ Distinct(playerIds)
          /\ DOMAIN hands = Range(playerIds)
          /\ DOMAIN bids = Range(playerIds)
          /\ DOMAIN tricksWon = Range(playerIds)
          /\ DOMAIN totalScores = Range(playerIds)
          /\ DOMAIN streaks = Range(playerIds)
          /\ Cardinality(DOMAIN hands) = numPlayers

\* a seated connection has joined its room once more and has a second seat;
\* the match started from that roster has two seats with one id and one hand
\* between them
C39_Witness ==
    /\ roomState.game
    /\ last.op = "game:start"
    /\ ~Distinct(playerIds)
    /\ Cardinality(DOMAIN hands) < numPlayers
    /\ \E p \in Range(playerIds) : Len(hands[p]) = 2 * currentHandSize

(***************************************************************************)
(* C40: the rules leave every turn holder a move.                          *)
(***************************************************************************)
\* C40: in every bidding state the seat that holds the bid turn has a bid
\* placeBid accepts, the dealer under its hook included (it has at least two
\* values to choose from, of which the hook takes at most one), and in every
\* playing state the seat that holds the play turn holds a card playCard
\* accepts.
C40_TurnHasMove ==
    /\ phase = "bidding" =>
          /\ \E b \in 0..currentHandSize : PlaceBidError(getCurrentBidder, b) = "none"
          /\ Cardinality({b \in 0..currentHandSize :
                             PlaceBidError(getCurrentBidder, b) # "none"}) <= 1
    /\ phase = "playing" =>
          /\ Len(hands[getCurrentPlayer]) > 0
          /\ \E i \in 1..Len(hands[getCurrentPlayer]) :
                PlayCardError(getCurrentPlayer, cardToString(hands[getCurrentPlayer][i])) = "none"

\* the dealer of a 1-card hand bids last with one trick bid so far: the hook
\* forbids 0 and leaves it the bid of 1
C40_Witness ==
    /\ phase = "bidding"
    /\ getCurrentBidder = dealerId
    /\ currentHandSize = 1
    /\ PlaceBidError(dealerId, 0) # "none"
    /\ PlaceBidError(dealerId, 1) = "none"
    /\ last.op = "placeBid"

====
